---- MODULE Spec2Model ----
(***************************************************************************)
(* Sift: the adaptive analysis orchestrator (Agent/orchestrator.py), the   *)
(* insight synthesizer (Agent/synthesizer.py) and the HTTP wiring of the   *)
(* two (app.py), as state machines.                                        *)
(*                                                                         *)
(*   Spec       one orchestrator run: profile -> plan -> execute, with the *)
(*              executor's worker threads completing in any order          *)
(*   SpecAnalyze  /api/analyze after the run: synthesis, savings plan,     *)
(*              the HTTP answer                                            *)
(*   SpecSession  the session store under concurrent requests              *)
(*   SpecSessionLive  the same, with the handlers' threads making progress *)
(*   SpecDedup    _deduplicate_insights on a list of insights              *)
(*   SpecSim      one call into Tools/simulator.py                         *)
(*   SpecCompare  a baseline and a job_loss projection of one table        *)
(*   SpecNorm     Ingestion/normalizer.py, deduplicate_transactions        *)
(*   SpecCache    the merchant cache under uploads and corrections         *)
(*   SpecStream   the event stream of /api/analyze-stream                  *)
(***************************************************************************)
EXTENDS Integers, Sequences, FiniteSets, TLC

VARIABLES
    df,             \* the transaction table handed to run(), by its aggregates
    pc,             \* position of the orchestrator run
    profile,        \* profile_data's result
    plan,           \* plan_analysis' result: plan["tools"]
    futures,        \* tool -> state of its task in the thread pool
    yielded,        \* futures as_completed has handed to the calling thread
    queue,          \* the pool's work queue (submitted, not yet picked up)
    results,        \* execute_analysis_plan: results
    tools_run,      \* execute_analysis_plan: tools_run
    tools_skipped,  \* execute_analysis_plan: tools_skipped
    llm_response,   \* what the text-generation collaborator did when called
    cross_refs,     \* synthesize_insights: _cross_reference's list
    candidates,     \* synthesize_insights: cross_refs extended by the LLM insights
    checked,        \* synthesize_insights: after _fact_check_dollar_impacts
    deduped,        \* synthesize_insights: after _deduplicate_insights
    insights,       \* results["insights"]
    savings_plan,   \* results["savings_plan"]
    response,       \* the HTTP answer of /api/analyze
    _sessions,      \* app.py: _sessions, in insertion order
    _analyzing,     \* app.py: _analyzing
    now,            \* time.time(), in seconds
    next_sid,       \* the next session id /api/upload hands out
    requests,       \* the HTTP requests, each with its position in its handler
    sim_df,         \* the table handed to the simulator, by its aggregates
    sim_call,       \* the simulator function called and its scenario argument
    sim_pc,         \* position of the simulator call
    projections,    \* the run_projection results the call holds so far
    sim_result,     \* what the simulator call returned
    norm_in,        \* the rows handed to deduplicate_transactions
    norm_pc,        \* position of the normalizer call
    norm_out,       \* the rows deduplicate_transactions returned
    _merchant_db,   \* app.py: _merchant_db, the in-memory merchant cache
    cache_file,     \* Data/merchant_cache.json
    cache_requests, \* the upload and correction requests working on the cache
    stream_in,      \* analyze_stream: what the session's table makes the run emit
    event_q,        \* generate: q, the queue between run_analysis and the stream
    worker_pc,      \* position of the run_analysis thread
    result_holder,  \* generate: result_holder[0]
    error_holder,   \* generate: error_holder[0]
    gen_pc,         \* position of the generator
    emitted         \* the events the generator has yielded

orchVars == <<profile, plan, futures, yielded, queue, results, tools_run, tools_skipped>>

synthVars == <<llm_response, cross_refs, candidates, checked, deduped, insights,
               savings_plan, response>>

sessVars == <<_sessions, _analyzing, now, next_sid, requests>>

simVars == <<sim_df, sim_call, sim_pc, projections, sim_result>>

normVars == <<norm_in, norm_pc, norm_out>>

cacheVars == <<_merchant_db, cache_file, cache_requests>>

streamVars == <<stream_in, event_q, worker_pc, result_holder, error_holder, gen_pc, emitted>>

extVars == <<normVars, cacheVars, streamVars>>

vars == <<df, pc, orchVars, synthVars, sessVars, simVars, extVars>>

----------------------------------------------------------------------------
(* Generic helpers                                                         *)

\* dict.get(key, default)
Get(d, k, default) == IF k \in DOMAIN d THEN d[k] ELSE default

Min(a, b) == IF a < b THEN a ELSE b

Max(a, b) == IF a > b THEN a ELSE b

Range(s) == {s[i] : i \in 1..Len(s)}

\* list.sort / sorted: ascending on an integer key, stable (equal keys keep
\* their input order); keys[i] is the key of s[i]
RECURSIVE SortIdx(_, _)
SortIdx(keys, remaining) ==
    IF remaining = {} THEN <<>>
    ELSE LET m == CHOOSE i \in remaining :
                     \A j \in remaining :
                         keys[i] < keys[j] \/ (keys[i] = keys[j] /\ i <= j)
         IN  <<m>> \o SortIdx(keys, remaining \ {m})

StableSort(s, keys) ==
    LET idx == SortIdx(keys, 1..Len(s))
    IN  [k \in 1..Len(s) |-> s[idx[k]]]

----------------------------------------------------------------------------
(* Agent/orchestrator.py                                                   *)

ToolOrder ==
    << "temporal_patterns", "anomaly_detection", "subscription_hunter",
       "correlation_engine", "spending_impact", "financial_resilience" >>

Tools == Range(ToolOrder)

TOOL_REQUIREMENTS ==
    [ temporal_patterns    |-> [min_days |-> 90,  min_categories |-> 0],
      anomaly_detection    |-> [min_days |-> 0,   min_categories |-> 0],
      subscription_hunter  |-> [min_transactions |-> 100, min_days |-> 0, min_categories |-> 0],
      correlation_engine   |-> [min_days |-> 90,  min_categories |-> 3],
      spending_impact      |-> [min_days |-> 180, min_categories |-> 5],
      financial_resilience |-> [min_days |-> 90,  min_categories |-> 3] ]

PRIORITY ==
    [ anomaly_detection |-> 1, subscription_hunter |-> 2, temporal_patterns |-> 3,
      spending_impact |-> 4, correlation_engine |-> 5, financial_resilience |-> 6 ]

NoPriority == 99

MaxWorkers == 4

\* The tables run() is called with, by the aggregates the run reads:
\* rows with a category (n_cat), rows without one, NaN or "" (n_uncat), the
\* day span of all rows (span), and the number of distinct categories other
\* than income/transfer (ncats).
Table(n_cat, n_uncat, span, ncats) ==
    [n_cat |-> n_cat, n_uncat |-> n_uncat, span |-> span, ncats |-> ncats]

Tables ==
    { Table(0, 0, 0, 0),          \* empty table
      Table(0, 50, 30, 0),        \* nothing categorized yet
      Table(100, 0, 30, 5),       \* one month of data
      Table(60, 0, 30, 2),
      Table(100, 0, 89, 5),       \* one day short of 90
      Table(60, 0, 90, 2),
      Table(100, 0, 90, 3),
      Table(100, 0, 179, 5),      \* one day short of 180
      Table(100, 0, 200, 4),      \* one category short of 5
      Table(99, 0, 200, 5),       \* one transaction short of 100
      Table(60, 50, 200, 3),      \* 110 rows, 60 of them categorized
      Table(100, 0, 200, 5) }     \* every gate met

\* len(df)
DfLen(t) == t.n_cat + t.n_uncat

ZeroProfile ==
    [ transaction_count |-> 0, date_range_days |-> 0, category_count |-> 0 ]

\* profile_data: the fields the planner and the claims read
profile_data(t) ==
    IF DfLen(t) = 0 THEN ZeroProfile
    ELSE [ transaction_count |-> DfLen(t),
           date_range_days   |-> t.span,
           category_count    |-> t.ncats ]

ReasonMet == [gate |-> "requirements met", need |-> 0, have |-> 0]

\* f"Need {need}+ {gate}, have {have}"
ReasonNeed(gate, need, have) == [gate |-> gate, need |-> need, have |-> have]

\* PlanEntry without the min_transactions gate
PlanEntry_NoTxnGate(tool_name, prof) ==
    LET reqs     == TOOL_REQUIREMENTS[tool_name]
        min_days == Get(reqs, "min_days", 0)
        min_cats == Get(reqs, "min_categories", 0)
        s0 == [enabled |-> TRUE, reason |-> ReasonMet]
        s1 == IF prof.date_range_days < min_days
              THEN [enabled |-> FALSE,
                    reason |-> ReasonNeed("days", min_days, prof.date_range_days)]
              ELSE s0
        s2 == IF prof.category_count < min_cats
              THEN [enabled |-> FALSE,
                    reason |-> ReasonNeed("categories", min_cats, prof.category_count)]
              ELSE s1
    IN  [ name     |-> tool_name,
          enabled  |-> s2.enabled,
          reason   |-> IF s2.enabled THEN ReasonMet ELSE s2.reason,
          priority |-> IF s2.enabled THEN Get(PRIORITY, tool_name, NoPriority)
                       ELSE NoPriority ]

\* one iteration of plan_analysis' loop: the three gates in code order, each
\* overwriting enabled/reason when it fails
PlanEntry(tool_name, prof) ==
    LET reqs     == TOOL_REQUIREMENTS[tool_name]
        min_days == Get(reqs, "min_days", 0)
        min_cats == Get(reqs, "min_categories", 0)
        min_txns == Get(reqs, "min_transactions", 0)
        s0 == [enabled |-> TRUE, reason |-> ReasonMet]
        s1 == IF prof.date_range_days < min_days
              THEN [enabled |-> FALSE,
                    reason |-> ReasonNeed("days", min_days, prof.date_range_days)]
              ELSE s0
        s2 == IF prof.category_count < min_cats
              THEN [enabled |-> FALSE,
                    reason |-> ReasonNeed("categories", min_cats, prof.category_count)]
              ELSE s1
        s3 == IF prof.transaction_count < min_txns
              THEN [enabled |-> FALSE,
                    reason |-> ReasonNeed("transactions", min_txns, prof.transaction_count)]
              ELSE s2
    IN  [ name     |-> tool_name,
          enabled  |-> s3.enabled,
          reason   |-> IF s3.enabled THEN ReasonMet ELSE s3.reason,
          priority |-> IF s3.enabled THEN Get(PRIORITY, tool_name, NoPriority)
                       ELSE NoPriority ]

\* tools.sort(key=lambda t: (not t["enabled"], t.get("priority", 99)))
PlanSortKey(t) == (IF t.enabled THEN 0 ELSE 1) * (NoPriority + 1) + t.priority

\* plan_analysis: plan["tools"]
plan_analysis(prof) ==
    LET tools == [i \in 1..Len(ToolOrder) |-> PlanEntry(ToolOrder[i], prof)]
    IN  StableSort(tools, [i \in 1..Len(tools) |-> PlanSortKey(tools[i])])

\* execute_analysis_plan: the enabled names and the skipped entries, in plan order
EnabledTools(p) == SelectSeq(p, LAMBDA t : t.enabled)

SkippedTools(p) ==
    LET sk == SelectSeq(p, LAMBDA t : ~t.enabled)
    IN  [i \in 1..Len(sk) |-> [name |-> sk[i].name, reason |-> sk[i].reason]]

Names(p) == [i \in 1..Len(p) |-> p[i].name]

\* ThreadPoolExecutor(max_workers=min(len(enabled_tools) or 1, 4))
PoolSize(n) == Min(IF n = 0 THEN 1 ELSE n, MaxWorkers)

\* what a tool's task can end with: _run_tool's value, or an exception
ToolError == [error |-> "tool raised"]

ToolOutput(name) == [output |-> name]

IsError(r) == "error" \in DOMAIN r

Running == {t \in Tools : futures[t] = "running"}

Finished == {t \in Tools : futures[t] \in {"returned", "raised"}}

----------------------------------------------------------------------------
(* Text: a string is modelled as the sequence of its words that matter to  *)
(* the searches made on it (a category name is one word); `w in text` is   *)
(* substring search                                                        *)

\* str.lower() on the category names of the model
Lower(tok) ==
    CASE tok = "Dining"        -> "dining"
      [] tok = "Groceries"     -> "groceries"
      [] tok = "Shopping"      -> "shopping"
      [] tok = "Waste Removal" -> "waste removal"
      [] tok = "Rent & Housing" -> "rent & housing"
      [] tok = "Entertainment" -> "entertainment"
      [] tok = "Education"     -> "education"
      [] tok = "Insurance"     -> "insurance"
      [] tok = "Health"        -> "health"
      [] tok = "Delivery"      -> "delivery"
      [] tok = "Travel"        -> "travel"
      [] tok = "Personal Care" -> "personal care"
      [] OTHER                 -> tok

\* the words of the model that have another modelled word as a proper substring
SubstringPairs ==
    { <<"subscriptions", "subscription">>, <<"weekends", "weekend">>,
      <<"waste removal", "waste">> }

\* every modelled word w with `w in tok`
WordsIn(tok) == {tok} \cup { p[2] : p \in { q \in SubstringPairs : q[1] = tok } }

\* every modelled word w with `w in text`, for one-word w
WordsOf(text) == UNION { WordsIn(Lower(text[i])) : i \in 1..Len(text) }

\* every (v, c) with f"{v} {c}" in text
PairsOf(text) ==
    UNION { WordsIn(Lower(text[i])) \X WordsIn(Lower(text[i + 1])) :
              i \in 1..(Len(text) - 1) }

----------------------------------------------------------------------------
(* Categorization/constants.py, Agent/synthesizer.py: constants            *)

ESSENTIAL_CATEGORIES ==
    { "groceries", "grocery", "rent & housing", "health", "insurance",
      "bills & utilities", "education" }

DISCRETIONARY_CATEGORIES ==
    { "dining", "delivery", "shopping", "entertainment", "personal care" }

BANNED_WORDS ==
    { "should", "bad", "problem", "waste", "too much", "excessive",
      "avoid", "excess", "splurge", "cut back", "habit", "frequent",
      "overspend", "reckless", "irresponsible", "guilty", "alarming",
      "variance", "standard deviation", "coefficient", "regression",
      "percentile", "volatility", "burn rate" }

topic_keywords ==
    << "subscription", "streaming", "payday", "weekend",
       "dining", "delivery", "shopping", "entertainment",
       "grocery", "transport", "correlation", "price creep",
       "runway", "resilience" >>

weekend_cats == {"dining", "entertainment", "transport", "shopping"}

confidence_order == [HIGH |-> 0, MEDIUM |-> 1, LOW |-> 2]

\* float('inf'), as calculate_runway returns it
Infinity == 1000000

\* an empty dict, the default of tool_results.get(name, {})
EmptyDict == <<>>

\* None as the f-string of validate_insight_framing renders it
NoneText == <<"none">>

----------------------------------------------------------------------------
(* Insights                                                                *)

\* a JSON number / null / string in the dollar_impact field
Num(n) == [kind |-> "num", v |-> n]

Null == [kind |-> "null", v |-> 0]

Str == [kind |-> "str", v |-> 0]

Insight(title, description, dollar_impact, confidence, action_option, tool_source) ==
    [ title |-> title, description |-> description, dollar_impact |-> dollar_impact,
      confidence |-> confidence, action_option |-> action_option,
      tool_source |-> tool_source ]

\* validate_insight_framing: the text it searches
FramingText(ins) == ins.title \o ins.description \o ins.action_option

validate_insight_framing(ins) ==
    /\ WordsOf(FramingText(ins)) \cap BANNED_WORDS = {}
    /\ PairsOf(FramingText(ins)) \cap ({"reduce", "cut", "lower"} \X ESSENTIAL_CATEGORIES) = {}

\* _extract_insight_keys on an insight's title and description
_extract_insight_keys(ins) ==
    WordsOf(ins.title \o ins.description) \cap Range(topic_keywords)

----------------------------------------------------------------------------
(* Tool outputs, as the synthesizer reads them                             *)

\* the categories a table's spending_impact result can rank first
TopDrivers == {"Dining", "Groceries", "Waste Removal"}

\* fit_impact_model: valid, with the given category as the top driver
ImpactValid(top) ==
    [ model_valid |-> TRUE,
      impacts |-> << [category |-> top, monthly_avg |-> 300] >> \o
                  SelectSeq(<< [category |-> "Dining",    monthly_avg |-> 200],
                               [category |-> "Groceries", monthly_avg |-> 150],
                               [category |-> "Shopping",  monthly_avg |-> 20] >>,
                            LAMBDA c : c.category # top) ]

TemporalFound ==
    [ payday |-> [payday_detected |-> TRUE, spending_in_first_7_days_pct |-> 45],
      weekly |-> [weekend_spending_multiple |-> 15] ]    \* in tenths: 1.5

SubsFound ==
    [ recurring   |-> << [merchant |-> "netflix", annual_cost |-> 192],
                         [merchant |-> "hulu",    annual_cost |-> 96] >>,
      price_creep |-> << [merchant |-> "netflix", price_creep_detected |-> TRUE,
                          annual_cost_increase |-> 24],
                         [merchant |-> "hulu", price_creep_detected |-> FALSE] >>,
      overlaps    |-> << [category |-> "Subscriptions", count |-> 2,
                          combined_annual |-> 288, potential_savings |-> 192] >> ]

AnomaliesFound ==
    [ outliers |-> <<>>, new_merchants |-> <<>>,
      spending_spikes |-> << [category |-> "Dining", spike_pct |-> 60] >> ]

\* calculate_category_correlations returns a list; correlation in hundredths
CorrelationsFound ==
    [list |-> << [category_a |-> "Shopping", category_b |-> "Dining", correlation |-> 70] >>]

Resilience(months) == [runway |-> [months_of_runway |-> months]]

\* what _run_tool can return for a tool
Outputs(t) ==
    CASE t = "temporal_patterns"    -> {TemporalFound}
      [] t = "anomaly_detection"    -> {AnomaliesFound}
      [] t = "subscription_hunter"  -> {SubsFound}
      [] t = "correlation_engine"   -> {CorrelationsFound}
      [] t = "spending_impact"      -> {ImpactValid(c) : c \in TopDrivers}
      [] t = "financial_resilience" -> {Resilience(4)}

\* a Python list, as opposed to a dict
IsList(x) == "list" \in DOMAIN x

----------------------------------------------------------------------------
(* Agent/synthesizer.py: _cross_reference                                  *)

\* the result of a call: its value, or raised = TRUE when an exception left it
Returned(v) == [raised |-> FALSE, value |-> v]

Raised == [raised |-> TRUE, value |-> <<>>]

\* bool(x) of a list or a dict
Truthy(x) == IF IsList(x) THEN x.list # <<>> ELSE DOMAIN x # {}

RECURSIVE SumField(_, _)
SumField(s, f) == IF s = <<>> THEN 0 ELSE Get(Head(s), f, 0) + SumField(Tail(s), f)

\* impact.get("model_valid") and impact.get("impacts")
ImpactUsable(impact) ==
    Get(impact, "model_valid", FALSE) /\ Get(impact, "impacts", <<>>) # <<>>

PaydayInsight(top_driver) ==
    Insight(<<"most", "of", "your", top_driver.category, "spending", "happens",
              "right", "after", "payday">>,
            <<"first", "week", "after", "payday", top_driver.category,
              "changes", "the", "most">>,
            Num(0), "HIGH",
            <<"one", "option", "would", "be", "setting", "a", top_driver.category,
              "budget">>,
            "cross_reference")

WeekendInsight(top_driver) ==
    Insight(<<"weekends", "are", "when", "your", top_driver.category, "spending", "jumps">>,
            <<"more", "on", "weekends", "than", "weekdays", "weekend",
              top_driver.category, "is", "a", "big", "part">>,
            Num(0), "MEDIUM", NoneText, "cross_reference")

SpikeInsight(spike_cat, related_cat) ==
    Insight(<<"your", spike_cat, "and", related_cat, "spending", "tend", "to",
              "rise", "together">>,
            <<spike_cat, "jumped", "last", "month", related_cat, "usually", "does", "too">>,
            Num(0), "MEDIUM", NoneText, "cross_reference")

SubscriptionInsight(total_creep) ==
    Insight(<<"subscription", "costs", "are", "growing", "from", "two", "directions">>,
            <<"overlapping", "subscriptions", "and", "prices", "are", "creeping", "up">>,
            Num(total_creep), "HIGH",
            <<"one", "option", "would", "be", "auditing", "subscriptions">>,
            "cross_reference")

RunwayInsight(top_driver, months) ==
    Insight(<<"your", "savings", "could", "cover", "about", "months", "of", "expenses">>,
            <<"if", "your", "income", "stopped", "today", top_driver.category,
              "changes", "the", "most", "spending", "less", "there", "would",
              "stretch", "your", "savings">>,
            Num(0),
            IF months < 6 THEN "HIGH" ELSE "MEDIUM",
            IF months < 12
            THEN <<"one", "option", "would", "be", "spending", "less", "on",
                   top_driver.category>>
            ELSE NoneText,
            "cross_reference")

\* the first correlation that names the spike's category and is positive
RelatedIndex(correlations, spike_cat) ==
    { i \in 1..Len(correlations) :
        /\ \/ Lower(correlations[i].category_a) = Lower(spike_cat)
           \/ Lower(correlations[i].category_b) = Lower(spike_cat)
        /\ correlations[i].correlation > 0 }

RelatedCat(corr, spike_cat) ==
    IF Lower(corr.category_a) = Lower(spike_cat) THEN corr.category_b ELSE corr.category_a

_cross_reference(tool_results) ==
    LET temporal     == Get(tool_results, "temporal_patterns", EmptyDict)
        impact       == Get(tool_results, "spending_impact", EmptyDict)
        subs         == Get(tool_results, "subscription_hunter", EmptyDict)
        anomalies    == Get(tool_results, "anomaly_detection", EmptyDict)
        correlations == Get(tool_results, "correlation_engine", [list |-> <<>>])
        payday       == Get(temporal, "payday", EmptyDict)
        weekly       == Get(temporal, "weekly", EmptyDict)
        spikes       == Get(anomalies, "spending_spikes", <<>>)
        resilience   == Get(tool_results, "financial_resilience", EmptyDict)
        runway       == Get(resilience, "runway", EmptyDict)
        months       == Get(runway, "months_of_runway", 0)
        creeping     == SelectSeq(Get(subs, "price_creep", <<>>),
                                  LAMBDA pc_ : Get(pc_, "price_creep_detected", FALSE))
        r1 == IF Get(payday, "payday_detected", FALSE) /\ ImpactUsable(impact)
              THEN <<PaydayInsight(impact.impacts[1])>> ELSE <<>>
        r2 == IF /\ Get(weekly, "weekend_spending_multiple", 10) > 13
                 /\ ImpactUsable(impact)
                 /\ Lower(impact.impacts[1].category) \in weekend_cats
              THEN <<WeekendInsight(impact.impacts[1])>> ELSE <<>>
        \* `for corr in correlations` over a dict yields its keys, and
        \* corr["category_a"] on a str raises TypeError
        spikeRaises == spikes # <<>> /\ Truthy(correlations) /\ ~IsList(correlations)
        r3 == IF spikes # <<>> /\ Truthy(correlations) /\ IsList(correlations)
                 /\ RelatedIndex(correlations.list, spikes[1].category) # {}
              THEN LET i == CHOOSE k \in RelatedIndex(correlations.list, spikes[1].category) :
                               \A j \in RelatedIndex(correlations.list, spikes[1].category) : k <= j
                   IN  <<SpikeInsight(spikes[1].category,
                                      RelatedCat(correlations.list[i], spikes[1].category))>>
              ELSE <<>>
        r4 == IF /\ Get(subs, "overlaps", <<>>) # <<>>
                 /\ Get(subs, "price_creep", <<>>) # <<>>
                 /\ creeping # <<>>
              THEN <<SubscriptionInsight(SumField(creeping, "annual_cost_increase"))>>
              ELSE <<>>
        r5 == IF months # 0 /\ months # Infinity /\ Get(impact, "model_valid", FALSE)
              THEN <<RunwayInsight(impact.impacts[1], months)>> ELSE <<>>
    IN  IF spikeRaises THEN Raised ELSE Returned(r1 \o r2 \o r3 \o r4 \o r5)

----------------------------------------------------------------------------
(* Agent/synthesizer.py: the text-generation fallback                      *)

\* _condense_tool_results: only whether it raises is modelled (its text goes
\* to the collaborator alone); correlations[:3] on a dict raises
CondenseRaises(tool_results) ==
    LET correlations == Get(tool_results, "correlation_engine", [list |-> <<>>])
    IN  Truthy(correlations) /\ ~IsList(correlations)

\* the insights the collaborator may put in its reply
LLMPool ==
    { Insight(<<"dining", "adds", "up">>, <<"over", "the", "year">>,
              Num(9000), "HIGH", <<"one", "option", "would", "be", "a", "budget">>, "llm"),
      Insight(<<"delivery", "fees">>, <<"on", "most", "orders">>,
              Num(8000), "LOW", NoneText, "llm"),
      Insight(<<"small", "purchases">>, <<"add", "up">>,
              Num(100), "MEDIUM", NoneText, "llm"),
      Insight(<<"you", "should", "save", "more">>, <<>>,
              Num(500), "HIGH", NoneText, "llm"),
      Insight(<<"food", "costs">>, <<"are", "high">>,
              Num(300), "MEDIUM", <<"reduce", "groceries">>, "llm"),
      Insight(<<"streaming", "services">>, <<"renew", "yearly">>,
              Null, "HIGH", NoneText, "llm"),
      Insight(<<"entertainment", "spending">>, <<"peaks", "in", "summer">>,
              Str, "MEDIUM", NoneText, "llm") }

MaxLLMInsights == 2

RECURSIVE SeqsUpTo(_, _)
SeqsUpTo(S, n) ==
    IF n = 0 THEN {<<>>}
    ELSE LET shorter == SeqsUpTo(S, n - 1)
         IN  shorter \cup {Append(s, x) : s \in {t \in shorter : Len(t) = n - 1}, x \in S}

\* what llm_call does: raises, returns nothing, or returns text that
\* json.loads(extract_json(raw)) rejects or parses to a number, to a list of
\* strings, to a list of objects or to an object with an "insights" key
LLMResponses ==
    { [kind |-> k, items |-> <<>>] :
          k \in {"raises", "none", "unparseable", "scalar", "strings"} }
    \cup { [kind |-> "array", items |-> s] : s \in SeqsUpTo(LLMPool, MaxLLMInsights) }
    \cup { [kind |-> "object", items |-> <<x>>] : x \in LLMPool }

_synthesize_with_llm(tool_results, resp) ==
    IF CondenseRaises(tool_results) THEN Raised        \* before the try block
    ELSE IF resp.kind \in {"array", "object"}
         THEN Returned(SelectSeq(resp.items, validate_insight_framing))
         ELSE Returned(<<>>)                              \* inside the try block

----------------------------------------------------------------------------
(* Agent/synthesizer.py: fact-check, deduplicate, rank                     *)

\* _extract_known_amounts
_extract_known_amounts(tool_results) ==
    LET subs   == Get(tool_results, "subscription_hunter", EmptyDict)
        impact == Get(tool_results, "spending_impact", EmptyDict)
        rec    == Get(subs, "recurring", <<>>)
        ovl    == Get(subs, "overlaps", <<>>)
        crp    == Get(subs, "price_creep", <<>>)
        imp    == Get(impact, "impacts", <<>>)
    IN  ( { Get(rec[i], "annual_cost", 0) : i \in 1..Len(rec) }
          \cup { Get(ovl[i], "combined_annual", 0) : i \in 1..Len(ovl) }
          \cup { Get(crp[i], "annual_cost_increase", 0) : i \in 1..Len(crp) }
          \cup { Get(imp[i], "monthly_avg", 0) * 12 :
                   i \in {j \in 1..Len(imp) : Get(imp[j], "monthly_avg", 0) > 0} } ) \ {0}

SetMax(S) == CHOOSE m \in S : \A x \in S : x <= m

\* the comparison `impact > max(known_amounts) * 2` is reached
ReachesComparison(ins, known_amounts) ==
    /\ ins.tool_source # "cross_reference"
    /\ ins.dollar_impact.kind # "null"                     \* not impact
    /\ ~(ins.dollar_impact.kind = "num" /\ ins.dollar_impact.v = 0)
    /\ known_amounts # {}

\* FactCheckOne capping at twice the largest known amount
FactCheckOne_CapAtDouble(ins, known_amounts) ==
    IF ReachesComparison(ins, known_amounts) /\ ins.dollar_impact.v > SetMax(known_amounts) * 2
    THEN [ins EXCEPT !.dollar_impact = Num(SetMax(known_amounts) * 2),
                     !.confidence = "MEDIUM"]
    ELSE ins

\* one insight through the loop body of _fact_check_dollar_impacts
FactCheckOne(ins, known_amounts) ==
    IF ReachesComparison(ins, known_amounts) /\ ins.dollar_impact.v > SetMax(known_amounts) * 2
    THEN [ins EXCEPT !.dollar_impact = Num(SetMax(known_amounts)),
                     !.confidence = "MEDIUM"]
    ELSE ins

_fact_check_dollar_impacts(ins_list, tool_results) ==
    LET known_amounts == _extract_known_amounts(tool_results)
    IN  IF \E i \in 1..Len(ins_list) :
               /\ ReachesComparison(ins_list[i], known_amounts)
               /\ ins_list[i].dollar_impact.kind = "str"   \* str > float: TypeError
        THEN Raised
        ELSE Returned([i \in 1..Len(ins_list) |-> FactCheckOne(ins_list[i], known_amounts)])

MinRetained == 3

IsDuplicate_NoMinimum(keys, seen_categories, kept) ==
    keys # {} /\ keys \cap seen_categories # {}

\* if keys and any(k in seen_categories for k in keys) and len(deduped) >= 3
IsDuplicate(keys, seen_categories, kept) ==
    keys # {} /\ keys \cap seen_categories # {} /\ Len(kept) >= MinRetained

\* the loop of _deduplicate_insights over the prioritized list
RECURSIVE DedupLoop(_, _, _)
DedupLoop(rest, seen_categories, kept) ==
    IF rest = <<>> THEN kept
    ELSE LET keys == _extract_insight_keys(Head(rest))
         IN  IF IsDuplicate(keys, seen_categories, kept)
             THEN DedupLoop(Tail(rest), seen_categories, kept)
             ELSE DedupLoop(Tail(rest), seen_categories \cup keys, Append(kept, Head(rest)))

_deduplicate_insights(ins_list) ==
    LET prioritized ==
            StableSort(ins_list,
                       [i \in 1..Len(ins_list) |->
                           IF ins_list[i].tool_source = "cross_reference" THEN 0 ELSE 1])
    IN  DedupLoop(prioritized, {}, <<>>)

UnknownConfidence == 3

\* RankKey ranking the smallest impact first
RankKey_Ascending(ins) ==
    ins.dollar_impact.v * (UnknownConfidence + 1)
        + Get(confidence_order, ins.confidence, UnknownConfidence)

\* the sort key (-dollar_impact, confidence rank) as one integer
RankKey(ins) ==
    (0 - ins.dollar_impact.v) * (UnknownConfidence + 1)
        + Get(confidence_order, ins.confidence, UnknownConfidence)

rank_insights_by_impact(ins_list) ==
    IF \E i \in 1..Len(ins_list) : ins_list[i].dollar_impact.kind # "num"
    THEN Raised                                    \* -None, -"...": TypeError
    ELSE Returned(StableSort(ins_list, [i \in 1..Len(ins_list) |-> RankKey(ins_list[i])]))

TopN == 5

LLMThreshold == 6

Take(s, n) == SubSeq(s, 1, Min(n, Len(s)))

\* synthesize_insights, with the lists it builds on the way
synthesize_insights(tool_results, resp) ==
    LET none == [raised |-> TRUE, cross_refs |-> <<>>, candidates |-> <<>>,
                 checked |-> <<>>, deduped |-> <<>>, insights |-> <<>>]
        cr   == _cross_reference(tool_results)
        llm  == IF Len(cr.value) < LLMThreshold
                THEN _synthesize_with_llm(tool_results, resp)
                ELSE Returned(<<>>)
        cand == cr.value \o llm.value
        fc   == _fact_check_dollar_impacts(cand, tool_results)
        dd   == _deduplicate_insights(fc.value)
        rk   == rank_insights_by_impact(dd)
    IN  IF cr.raised THEN none
        ELSE IF llm.raised THEN [none EXCEPT !.cross_refs = cr.value]
        ELSE IF fc.raised
             THEN [none EXCEPT !.cross_refs = cr.value, !.candidates = cand]
        ELSE IF rk.raised
             THEN [none EXCEPT !.cross_refs = cr.value, !.candidates = cand,
                               !.checked = fc.value, !.deduped = dd]
        ELSE [raised |-> FALSE, cross_refs |-> cr.value, candidates |-> cand,
              checked |-> fc.value, deduped |-> dd, insights |-> Take(rk.value, TopN)]

----------------------------------------------------------------------------
(* Agent/synthesizer.py: generate_savings_plan                             *)

\* round(a / b): Python rounds a half to the even neighbour
RoundDiv(a, b) ==
    LET q == a \div b
        r == a % b
    IN  IF 2 * r < b THEN q
        ELSE IF 2 * r > b THEN q + 1
        ELSE IF q % 2 = 0 THEN q ELSE q + 1

\* _savings_thresholds; cut_pct in thousandths
_savings_thresholds(prof, monthly_spending) ==
    LET income == Get(prof, "monthly_income", 0)
        base   == IF income > 0 THEN income ELSE monthly_spending
        savings_rate == Max(0, ((income - monthly_spending) * 1000) \div income)
    IN  IF base <= 0
        THEN [min_monthly |-> 10, cut_pct |-> 150, min_annual |-> 20]
        ELSE [ min_monthly |-> Min(50, Max(10, RoundDiv(base * 2, 100))),
               cut_pct     |-> IF income > 0
                               THEN Min(200, Max(100, 300 - savings_rate))
                               ELSE 150,
               min_annual  |-> Min(100, Max(20, RoundDiv(base * 12 * 5, 1000))) ]

Opportunity(title, annual_savings, type) ==
    [title |-> title, annual_savings |-> annual_savings, type |-> type]

\* f"{int(cut_pct * 100)}%"
CutLabel(cut_pct) == cut_pct \div 10

\* round(avg * cut_pct * 12, 2), in dollars
AnnualCut(avg, cut_pct) == (avg * cut_pct * 12) \div 1000

\* 1. subscription overlaps with positive potential savings
OverlapOpportunities(subs) ==
    LET ovl  == Get(subs, "overlaps", <<>>)
        pos  == SelectSeq(ovl, LAMBDA o : Get(o, "potential_savings", 0) > 0)
    IN  [i \in 1..Len(pos) |->
            Opportunity(<<"consolidate", pos[i].category, "subscriptions">>,
                        pos[i].potential_savings, "subscription")]

\* 2. price creep above $10 a year
CreepOpportunities(subs) ==
    LET crp == SelectSeq(Get(subs, "price_creep", <<>>),
                         LAMBDA p : /\ Get(p, "price_creep_detected", FALSE)
                                    /\ Get(p, "annual_cost_increase", 0) > 10)
    IN  [i \in 1..Len(crp) |->
            Opportunity(<<crp[i].merchant, "price", "increase">>,
                        crp[i].annual_cost_increase, "price_creep")]

\* 3. discretionary categories among the spending drivers
DriverOpportunities(impact, thresh) ==
    LET ok == SelectSeq(IF ImpactUsable(impact) THEN impact.impacts ELSE <<>>,
                        LAMBDA imp :
                            /\ Lower(imp.category) \in DISCRETIONARY_CATEGORIES
                            /\ imp.monthly_avg >= thresh.min_monthly
                            /\ AnnualCut(imp.monthly_avg, thresh.cut_pct) >= thresh.min_annual)
    IN  [i \in 1..Len(ok) |->
            Opportunity(<<"reduce", ok[i].category, "by", CutLabel(thresh.cut_pct)>>,
                        AnnualCut(ok[i].monthly_avg, thresh.cut_pct), "discretionary")]

\* total / max(1, days / 30.0)
MonthlyAvg(total, span) == IF span > 30 THEN (total * 30) \div span ELSE total

\* 4. fallback: discretionary category totals of the table, largest first
FallbackOpportunities(t, thresh) ==
    LET disc   == SelectSeq(t.totals,
                            LAMBDA c : Lower(c.category) \in DISCRETIONARY_CATEGORIES)
        sorted == StableSort(disc, [i \in 1..Len(disc) |-> 0 - disc[i].total])
        ok     == SelectSeq(sorted, LAMBDA c :
                      /\ MonthlyAvg(c.total, t.span) >= thresh.min_monthly
                      /\ AnnualCut(MonthlyAvg(c.total, t.span), thresh.cut_pct)
                             >= thresh.min_annual)
    IN  [i \in 1..Len(ok) |->
            Opportunity(<<"reduce", ok[i].category, "by", CutLabel(thresh.cut_pct)>>,
                        AnnualCut(MonthlyAvg(ok[i].total, t.span), thresh.cut_pct),
                        "discretionary")]

generate_savings_plan(t, tool_results, prof) ==
    LET monthly_spending == IF Get(prof, "monthly_spending", 0) # 0
                            THEN prof.monthly_spending
                            ELSE Get(prof, "monthly_average", 0)
        thresh == _savings_thresholds(prof, monthly_spending)
        subs   == Get(tool_results, "subscription_hunter", EmptyDict)
        impact == Get(tool_results, "spending_impact", EmptyDict)
        first3 == OverlapOpportunities(subs) \o CreepOpportunities(subs)
                      \o DriverOpportunities(impact, thresh)
        opps   == IF first3 = <<>> /\ DfLen(t) > 0
                  THEN FallbackOpportunities(t, thresh)
                  ELSE first3
        ranked == StableSort(opps, [i \in 1..Len(opps) |-> 0 - opps[i].annual_savings])
        top    == Take(ranked, TopN)
    IN  [ total_annual_savings |-> SumField(top, "annual_savings"),
          opportunities        |-> top ]

----------------------------------------------------------------------------
(* app.py: /api/analyze after the session lookup                           *)

\* the tables of SpecAnalyze: the aggregates of Table, the monthly income and
\* spending of the profile, and the spending total of each category
AnalyzeTable(n_cat, span, ncats, income, spending, totals) ==
    [ n_cat |-> n_cat, n_uncat |-> 0, span |-> span, ncats |-> ncats,
      monthly_income |-> income, monthly_spending |-> spending, totals |-> totals ]

AnalyzeTables ==
    { AnalyzeTable(60, 30, 2, 0, 500,
                   << [category |-> "Groceries", total |-> 100],
                      [category |-> "Dining",    total |-> 400] >>),
      AnalyzeTable(120, 90, 3, 3000, 2800,
                   << [category |-> "Groceries", total |-> 1200],
                      [category |-> "Dining",    total |-> 900],
                      [category |-> "Shopping",  total |-> 300] >>),
      AnalyzeTable(150, 210, 5, 5000, 4000,
                   << [category |-> "Groceries",     total |-> 1050],
                      [category |-> "Dining",        total |-> 2100],
                      [category |-> "Shopping",      total |-> 140],
                      [category |-> "Waste Removal", total |-> 700] >>) }

\* profile_data with the spending metrics generate_savings_plan reads
AnalyzeProfile(t) ==
    [ transaction_count |-> DfLen(t), date_range_days |-> t.span,
      category_count |-> t.ncats, monthly_income |-> t.monthly_income,
      monthly_spending |-> t.monthly_spending, monthly_average |-> t.monthly_spending ]

Extend(d, k, v) == [x \in DOMAIN d \cup {k} |-> IF x = k THEN v ELSE d[x]]

\* the results dicts execute_analysis_plan can return for a set of enabled tools
RECURSIVE ResultDicts(_)
ResultDicts(S) ==
    IF S = {} THEN {<<>>}
    ELSE LET t == CHOOSE x \in S : TRUE
         IN  { Extend(r, t, v) : r \in ResultDicts(S \ {t}),
                                 v \in Outputs(t) \cup {ToolError} }

EnabledSet(p) == { p[i].name : i \in { j \in 1..Len(p) : p[j].enabled } }

SynthIdle ==
    /\ llm_response = [kind |-> "none", items |-> <<>>]
    /\ cross_refs = <<>>
    /\ candidates = <<>>
    /\ checked = <<>>
    /\ deduped = <<>>
    /\ insights = <<>>
    /\ savings_plan = <<>>
    /\ response = <<>>

\* no simulator call
SimIdle ==
    /\ sim_df = <<>>
    /\ sim_call = <<>>
    /\ sim_pc = "idle"
    /\ projections = <<>>
    /\ sim_result = <<>>

\* no normalizer call
NormIdle ==
    /\ norm_in = <<>>
    /\ norm_pc = "idle"
    /\ norm_out = <<>>

\* no merchant cache, no request on it
CacheIdle ==
    /\ _merchant_db = <<>>
    /\ cache_file = <<>>
    /\ cache_requests = <<>>

\* no event stream
StreamIdle ==
    /\ stream_in = <<>>
    /\ event_q = <<>>
    /\ worker_pc = "idle"
    /\ result_holder = <<>>
    /\ error_holder = <<>>
    /\ gen_pc = "idle"
    /\ emitted = <<>>

\* nothing outside the orchestrator, the synthesizer, the session store and
\* the simulator is running
ExtIdle == NormIdle /\ CacheIdle /\ StreamIdle

\* no session, no request: the server right after start
SessIdle ==
    /\ _sessions = <<>>
    /\ _analyzing = {}
    /\ now = 0
    /\ next_sid = 1
    /\ requests = <<>>

----------------------------------------------------------------------------
(* Spec: one call of orchestrator.run                                      *)

Init ==
    /\ df \in Tables
    /\ pc = "start"
    /\ profile = ZeroProfile
    /\ plan = <<>>
    /\ futures = [t \in Tools |-> "none"]
    /\ yielded = {}
    /\ queue = <<>>
    /\ results = <<>>
    /\ tools_run = <<>>
    /\ tools_skipped = <<>>
    /\ SynthIdle
    /\ SessIdle
    /\ SimIdle
    /\ ExtIdle

\* run: profile = profile_data(df)
Profile ==
    /\ pc = "start"
    /\ profile' = profile_data(df)
    /\ pc' = "profiled"
    /\ UNCHANGED <<df, plan, futures, yielded, queue, results, tools_run, tools_skipped>>
    /\ UNCHANGED <<synthVars, sessVars, simVars, extVars>>

\* run: plan = plan_analysis(profile)
Plan ==
    /\ pc = "profiled"
    /\ plan' = plan_analysis(profile)
    /\ pc' = "planned"
    /\ UNCHANGED <<df, profile, futures, yielded, queue, results, tools_run, tools_skipped>>
    /\ UNCHANGED <<synthVars, sessVars, simVars, extVars>>

\* execute_analysis_plan up to the end of the submit loop: skipped tools are
\* recorded, every enabled tool is submitted to the pool in plan order
Submit ==
    /\ pc = "planned"
    /\ tools_skipped' = SkippedTools(plan)
    /\ queue' = Names(EnabledTools(plan))
    /\ futures' = [t \in Tools |->
                     IF t \in Range(Names(EnabledTools(plan))) THEN "queued" ELSE "none"]
    /\ yielded' = {}
    /\ results' = <<>>
    /\ tools_run' = <<>>
    /\ pc' = "collecting"
    /\ UNCHANGED <<df, profile, plan>>
    /\ UNCHANGED <<synthVars, sessVars, simVars, extVars>>

\* a free pool thread takes the next work item
WorkerStart ==
    /\ pc = "collecting"
    /\ queue # <<>>
    /\ Cardinality(Running) < PoolSize(Len(EnabledTools(plan)))
    /\ futures' = [futures EXCEPT ![Head(queue)] = "running"]
    /\ queue' = Tail(queue)
    /\ UNCHANGED <<df, pc, profile, plan, yielded, results, tools_run, tools_skipped>>
    /\ UNCHANGED <<synthVars, sessVars, simVars, extVars>>

\* _run_tool returns in a pool thread
WorkerReturn(t) ==
    /\ futures[t] = "running"
    /\ futures' = [futures EXCEPT ![t] = "returned"]
    /\ UNCHANGED <<df, pc, profile, plan, yielded, queue, results, tools_run, tools_skipped>>
    /\ UNCHANGED <<synthVars, sessVars, simVars, extVars>>

\* _run_tool raises in a pool thread: the future holds the exception
WorkerRaise(t) ==
    /\ futures[t] = "running"
    /\ futures' = [futures EXCEPT ![t] = "raised"]
    /\ UNCHANGED <<df, pc, profile, plan, yielded, queue, results, tools_run, tools_skipped>>
    /\ UNCHANGED <<synthVars, sessVars, simVars, extVars>>

\* Collect that drops a tool whose task raised
Collect_DropRaised(t) ==
    /\ pc = "collecting"
    /\ t \in Finished \ yielded
    /\ IF futures[t] = "raised"
       THEN UNCHANGED <<results, tools_run>>
       ELSE /\ results' = [k \in DOMAIN results \cup {t} |->
                             IF k = t THEN ToolOutput(t) ELSE results[k]]
            /\ tools_run' = Append(tools_run, t)
    /\ yielded' = yielded \cup {t}
    /\ UNCHANGED <<df, pc, profile, plan, futures, queue, tools_skipped>>
    /\ UNCHANGED <<synthVars, sessVars, simVars, extVars>>

\* one iteration of `for future in as_completed(futures)` in the calling thread
Collect(t) ==
    /\ pc = "collecting"
    /\ t \in Finished \ yielded
    /\ results' = [k \in DOMAIN results \cup {t} |->
                     IF k = t
                     THEN (IF futures[t] = "raised" THEN ToolError ELSE ToolOutput(t))
                     ELSE results[k]]
    /\ tools_run' = Append(tools_run, t)
    /\ yielded' = yielded \cup {t}
    /\ UNCHANGED <<df, pc, profile, plan, futures, queue, tools_skipped>>
    /\ UNCHANGED <<synthVars, sessVars, simVars, extVars>>

\* Return that does not wait for the outstanding tasks
Return_Early ==
    /\ pc = "collecting"
    /\ pc' = "done"
    /\ UNCHANGED <<df, profile, plan, futures, yielded, queue, results, tools_run, tools_skipped>>
    /\ UNCHANGED <<synthVars, sessVars, simVars, extVars>>

\* as_completed is exhausted, the pool is shut down, the dict is returned
Return ==
    /\ pc = "collecting"
    /\ \A t \in Tools : futures[t] # "none" => t \in yielded
    /\ pc' = "done"
    /\ UNCHANGED <<df, profile, plan, futures, yielded, queue, results, tools_run, tools_skipped>>
    /\ UNCHANGED <<synthVars, sessVars, simVars, extVars>>

Next ==
    \/ Profile
    \/ Plan
    \/ Submit
    \/ WorkerStart
    \/ \E t \in Tools : WorkerReturn(t)
    \/ \E t \in Tools : WorkerRaise(t)
    \/ \E t \in Tools : Collect(t)
    \/ Return

Spec == Init /\ [][Next]_vars

----------------------------------------------------------------------------
(* SpecAnalyze: /api/analyze from the return of orchestrator.run on:        *)
(* synthesize_insights, generate_savings_plan, the HTTP answer             *)

InitAnalyze ==
    /\ df \in AnalyzeTables
    /\ pc = "run_returned"
    /\ profile = AnalyzeProfile(df)
    /\ plan = plan_analysis(profile)
    /\ results \in ResultDicts(EnabledSet(plan))
    /\ futures = [t \in Tools |->
                    IF t \in DOMAIN results
                    THEN (IF IsError(results[t]) THEN "raised" ELSE "returned")
                    ELSE "none"]
    /\ yielded = DOMAIN results
    /\ queue = <<>>
    /\ tools_run = Names(EnabledTools(plan))
    /\ tools_skipped = SkippedTools(plan)
    /\ SynthIdle
    /\ SessIdle
    /\ SimIdle
    /\ ExtIdle

\* the collaborator is called when _cross_reference returned fewer than 6
\* insights and _condense_tool_results returned
CallsLLM(tool_results) ==
    /\ ~_cross_reference(tool_results).raised
    /\ Len(_cross_reference(tool_results).value) < LLMThreshold
    /\ ~CondenseRaises(tool_results)

\* analyze: results["insights"] = synthesize_insights(...)
Synthesize ==
    /\ pc = "run_returned"
    /\ \E resp \in (IF CallsLLM(results) THEN LLMResponses ELSE {llm_response}) :
          LET r == synthesize_insights(results, resp)
          IN  /\ llm_response' = resp
              /\ cross_refs' = r.cross_refs
              /\ candidates' = r.candidates
              /\ checked' = r.checked
              /\ deduped' = r.deduped
              /\ insights' = r.insights
              /\ pc' = IF r.raised THEN "failed" ELSE "synthesized"
    /\ UNCHANGED <<df, orchVars, savings_plan, response, sessVars, simVars, extVars>>

\* analyze: results["savings_plan"] = generate_savings_plan(...)
SavingsPlan ==
    /\ pc = "synthesized"
    /\ savings_plan' = generate_savings_plan(df, results, profile)
    /\ pc' = "saved"
    /\ UNCHANGED <<df, orchVars, llm_response, cross_refs, candidates, checked,
                   deduped, insights, response, sessVars, simVars, extVars>>

\* analyze: return jsonify(serialize_for_json(results))
Respond ==
    /\ pc = "saved"
    /\ response' = [ status |-> 200, results |-> results, insights |-> insights,
                     savings_plan |-> savings_plan ]
    /\ pc' = "responded"
    /\ UNCHANGED <<df, orchVars, llm_response, cross_refs, candidates, checked,
                   deduped, insights, savings_plan, sessVars, simVars, extVars>>

\* analyze: except Exception -> {"error": "Analysis failed: ..."}, 500
RespondError ==
    /\ pc = "failed"
    /\ response' = [status |-> 500, error |-> "Analysis failed"]
    /\ pc' = "responded"
    /\ UNCHANGED <<df, orchVars, llm_response, cross_refs, candidates, checked,
                   deduped, insights, savings_plan, sessVars, simVars, extVars>>

NextAnalyze ==
    \/ Synthesize
    \/ SavingsPlan
    \/ Respond
    \/ RespondError

SpecAnalyze == InitAnalyze /\ [][NextAnalyze]_vars

----------------------------------------------------------------------------
(* SpecSession: the session store of app.py under concurrent requests to    *)
(* /api/upload, /api/analyze and /api/analyze-stream.  Each action is one   *)
(* critical section (one `with lock:` block) or one lock-free stretch of a  *)
(* handler, so the handlers interleave as the threaded server lets them.    *)

MAX_SESSIONS == 50

SESSION_TTL == 3600

\* number of requests the server receives
MaxRequests == 2

\* the clock stops here
MaxTime == 3601

Requests == 1..MaxRequests

\* analysis_results of a session nobody analysed yet
NoResults == 0

Session(sid, created_at) ==
    [sid |-> sid, created_at |-> created_at, analysis_results |-> NoResults]

\* a store that earlier uploads filled with k sessions
Prefilled(k) == [i \in 1..k |-> Session(i, 0)]

IdleRequest == [kind |-> "none", sid |-> 0, pc |-> "idle", status |-> 0, ok |-> FALSE]

IndexOf(store, sid) ==
    IF \E i \in 1..Len(store) : store[i].sid = sid
    THEN CHOOSE i \in 1..Len(store) : store[i].sid = sid
    ELSE 0

Remove(store, i) == SubSeq(store, 1, i - 1) \o SubSeq(store, i + 1, Len(store))

Expired(s) == now - s.created_at > SESSION_TTL

_evict_expired_sessions(store) ==
    SelectSeq(store, LAMBDA s : ~(Expired(s) /\ s.sid \notin _analyzing))

\* [store: _sessions afterwards, session: whether a session is returned]
_get_session(session_id) ==
    LET evicted == _evict_expired_sessions(_sessions)
        i       == IndexOf(evicted, session_id)
    IN  IF i # 0 /\ Expired(evicted[i])
        THEN [store |-> Remove(evicted, i), session |-> FALSE]
        ELSE [store |-> evicted, session |-> i # 0]

\* min(_sessions, key=created_at): the first of the oldest, in dict order
OldestIndex(store) ==
    CHOOSE i \in 1..Len(store) :
        /\ \A j \in 1..Len(store) : store[i].created_at <= store[j].created_at
        /\ \A j \in 1..(i - 1) : store[j].created_at > store[i].created_at

_store_session_NoCapacityEviction(session_id) ==
    Append(_evict_expired_sessions(_sessions), Session(session_id, now))

_store_session(session_id) ==
    LET evicted == _evict_expired_sessions(_sessions)
        room    == IF Len(evicted) >= MAX_SESSIONS
                   THEN Remove(evicted, OldestIndex(evicted))
                   ELSE evicted
    IN  Append(room, Session(session_id, now))

_update_session(session_id, value) ==
    [i \in 1..Len(_sessions) |->
        IF _sessions[i].sid = session_id
        THEN [_sessions[i] EXCEPT !.analysis_results = value]
        ELSE _sessions[i]]

\* requests are numbered in the order they arrive
Arrives(r) ==
    /\ requests[r].pc = "idle"
    /\ \A q \in 1..(r - 1) : requests[q].pc # "idle"

\* the session ids a client can hold: the first and the latest handed out
KnownSids == {1, Max(1, next_sid - 1)}

AnalysisIdle ==
    /\ df = Table(0, 0, 0, 0)
    /\ pc = "start"
    /\ profile = ZeroProfile
    /\ plan = <<>>
    /\ futures = [t \in Tools |-> "none"]
    /\ yielded = {}
    /\ queue = <<>>
    /\ results = <<>>
    /\ tools_run = <<>>
    /\ tools_skipped = <<>>
    /\ SynthIdle

InitSession ==
    /\ AnalysisIdle
    /\ SimIdle
    /\ ExtIdle
    /\ _sessions \in {Prefilled(1), Prefilled(MAX_SESSIONS)}
    /\ _analyzing = {}
    /\ now = 0
    /\ next_sid = Len(_sessions) + 1
    /\ requests = [r \in Requests |-> IdleRequest]

Goto(r, kind, sid, pos, status, ok) ==
    requests' = [requests EXCEPT ![r] =
                    [kind |-> kind, sid |-> sid, pc |-> pos, status |-> status, ok |-> ok]]

Step(r, pos, status, ok) ==
    Goto(r, requests[r].kind, requests[r].sid, pos, status, ok)

\* time passes, up to the next reading of the clock
Tick ==
    /\ now < MaxTime
    /\ now' = IF now < SESSION_TTL THEN SESSION_TTL ELSE now + 1
    /\ UNCHANGED <<_sessions, _analyzing, next_sid, requests>>
    /\ UNCHANGED <<df, pc, orchVars, synthVars, simVars, extVars>>

\* upload: _store_session(session_id, {..., "created_at": time.time()})
Upload(r) ==
    /\ Arrives(r)
    /\ _sessions' = _store_session(next_sid)
    /\ next_sid' = next_sid + 1
    /\ Goto(r, "upload", next_sid, "done", 200, TRUE)
    /\ UNCHANGED <<_analyzing, now>>
    /\ UNCHANGED <<df, pc, orchVars, synthVars, simVars, extVars>>

\* analyze: with _analyzing_lock: 409 if the session is being analysed, else
\* _analyzing.add(session_id)
AnalyzeArrive(r) ==
    /\ Arrives(r)
    /\ \E sid \in KnownSids :
          IF sid \in _analyzing
          THEN /\ Goto(r, "analyze", sid, "done", 409, FALSE)
               /\ UNCHANGED _analyzing
          ELSE /\ Goto(r, "analyze", sid, "lookup", 0, FALSE)
               /\ _analyzing' = _analyzing \cup {sid}
    /\ UNCHANGED <<_sessions, now, next_sid>>
    /\ UNCHANGED <<df, pc, orchVars, synthVars, simVars, extVars>>

\* analyze: session = _get_session(session_id)
AnalyzeLookup(r) ==
    /\ requests[r].kind = "analyze"
    /\ requests[r].pc = "lookup"
    /\ LET g == _get_session(requests[r].sid)
       IN  /\ _sessions' = g.store
           /\ Step(r, IF g.session THEN "running" ELSE "expired", 0, FALSE)
    /\ UNCHANGED <<_analyzing, now, next_sid>>
    /\ UNCHANGED <<df, pc, orchVars, synthVars, simVars, extVars>>

\* analyze: no session: _analyzing.discard(session_id), 400
AnalyzeExpired_NoDiscard(r) ==
    /\ requests[r].kind = "analyze"
    /\ requests[r].pc = "expired"
    /\ Step(r, "done", 400, FALSE)
    /\ UNCHANGED <<_sessions, _analyzing, now, next_sid>>
    /\ UNCHANGED <<df, pc, orchVars, synthVars, simVars, extVars>>

AnalyzeExpired(r) ==
    /\ requests[r].kind = "analyze"
    /\ requests[r].pc = "expired"
    /\ _analyzing' = _analyzing \ {requests[r].sid}
    /\ Step(r, "done", 400, FALSE)
    /\ UNCHANGED <<_sessions, now, next_sid>>
    /\ UNCHANGED <<df, pc, orchVars, synthVars, simVars, extVars>>

\* analyze: the pipeline ends; on success
\* _update_session(session_id, "analysis_results", results) and 200, on an
\* exception 500
AnalyzeRun(r) ==
    /\ requests[r].kind = "analyze"
    /\ requests[r].pc = "running"
    /\ \E ok \in BOOLEAN :
          /\ _sessions' = IF ok THEN _update_session(requests[r].sid, r) ELSE _sessions
          /\ Step(r, "finally", IF ok THEN 200 ELSE 500, ok)
    /\ UNCHANGED <<_analyzing, now, next_sid>>
    /\ UNCHANGED <<df, pc, orchVars, synthVars, simVars, extVars>>

\* analyze: finally: _analyzing.discard(session_id)
AnalyzeFinally(r) ==
    /\ requests[r].kind = "analyze"
    /\ requests[r].pc = "finally"
    /\ _analyzing' = _analyzing \ {requests[r].sid}
    /\ Step(r, "done", requests[r].status, requests[r].ok)
    /\ UNCHANGED <<_sessions, now, next_sid>>
    /\ UNCHANGED <<df, pc, orchVars, synthVars, simVars, extVars>>

\* analyze_stream: session = _get_session(session_id); 400 without one, else
\* the event stream starts and with it the run_analysis thread
StreamArrive(r) ==
    /\ Arrives(r)
    /\ \E sid \in KnownSids :
          LET g == _get_session(sid)
          IN  /\ _sessions' = g.store
              /\ IF g.session
                 THEN Goto(r, "stream", sid, "running", 200, FALSE)
                 ELSE Goto(r, "stream", sid, "done", 400, FALSE)
    /\ UNCHANGED <<_analyzing, now, next_sid>>
    /\ UNCHANGED <<df, pc, orchVars, synthVars, simVars, extVars>>

\* run_analysis: the pipeline ends; on success _update_session(...) and
\* result_holder, on an exception error_holder; finally the sentinel
StreamWorker(r) ==
    /\ requests[r].kind = "stream"
    /\ requests[r].pc = "running"
    /\ \E ok \in BOOLEAN :
          /\ _sessions' = IF ok THEN _update_session(requests[r].sid, r) ELSE _sessions
          /\ Step(r, "sentinel", 200, ok)
    /\ UNCHANGED <<_analyzing, now, next_sid>>
    /\ UNCHANGED <<df, pc, orchVars, synthVars, simVars, extVars>>

\* generate: the sentinel arrives, the terminal event is sent
StreamEnd(r) ==
    /\ requests[r].kind = "stream"
    /\ requests[r].pc = "sentinel"
    /\ Step(r, "done", 200, requests[r].ok)
    /\ UNCHANGED <<_sessions, _analyzing, now, next_sid>>
    /\ UNCHANGED <<df, pc, orchVars, synthVars, simVars, extVars>>

NextSession ==
    \/ Tick
    \/ \E r \in Requests : Upload(r)
    \/ \E r \in Requests : AnalyzeArrive(r)
    \/ \E r \in Requests : AnalyzeLookup(r)
    \/ \E r \in Requests : AnalyzeExpired(r)
    \/ \E r \in Requests : AnalyzeRun(r)
    \/ \E r \in Requests : AnalyzeFinally(r)
    \/ \E r \in Requests : StreamArrive(r)
    \/ \E r \in Requests : StreamWorker(r)
    \/ \E r \in Requests : StreamEnd(r)

SpecSession == InitSession /\ [][NextSession]_vars

\* a step of a handler that is under way
HandlerStep ==
    \E r \in Requests :
        \/ AnalyzeLookup(r)
        \/ AnalyzeExpired(r)
        \/ AnalyzeRun(r)
        \/ AnalyzeFinally(r)
        \/ StreamWorker(r)
        \/ StreamEnd(r)

\* while a handler is under way some handler takes a step: the server runs
\* the handlers on threads, the locks are held for one block each, and the
\* analysis pipeline returns or raises
HandlersProgress == WF_vars(HandlerStep)

SpecSessionLive == SpecSession /\ HandlersProgress

----------------------------------------------------------------------------
(* SpecDedup: _deduplicate_insights as a function of its argument, a list   *)
(* of insights in any order                                                 *)

\* longest list handed to _deduplicate_insights
MaxDedupLen == 5

DedupPool ==
    { PaydayInsight([category |-> "Dining"]),
      SubscriptionInsight(24),
      Insight(<<"dining", "adds", "up">>, <<"over", "the", "year">>,
              Num(900), "HIGH", NoneText, "llm"),
      Insight(<<"streaming", "subscriptions">>, <<"renew", "yearly">>,
              Num(200), "MEDIUM", NoneText, "llm"),
      Insight(<<"small", "purchases">>, <<"add", "up">>,
              Num(100), "MEDIUM", NoneText, "llm") }

InitDedup ==
    /\ df = Table(0, 0, 0, 0)
    /\ pc = "dedup_start"
    /\ profile = ZeroProfile
    /\ plan = <<>>
    /\ futures = [t \in Tools |-> "none"]
    /\ yielded = {}
    /\ queue = <<>>
    /\ results = <<>>
    /\ tools_run = <<>>
    /\ tools_skipped = <<>>
    /\ llm_response = [kind |-> "none", items |-> <<>>]
    /\ cross_refs = <<>>
    /\ candidates = <<>>
    /\ checked \in SeqsUpTo(DedupPool, MaxDedupLen)
    /\ deduped = <<>>
    /\ insights = <<>>
    /\ savings_plan = <<>>
    /\ response = <<>>
    /\ SessIdle
    /\ SimIdle
    /\ ExtIdle

\* insights = _deduplicate_insights(insights)
Deduplicate ==
    /\ pc = "dedup_start"
    /\ deduped' = _deduplicate_insights(checked)
    /\ pc' = "dedup_done"
    /\ UNCHANGED <<df, orchVars, llm_response, cross_refs, candidates, checked,
                   insights, savings_plan, response, sessVars, simVars, extVars>>

NextDedup == Deduplicate

SpecDedup == InitDedup /\ [][NextDedup]_vars

----------------------------------------------------------------------------
(* SpecSim: one call into Tools/simulator.py.  Money is in cents and every  *)
(* amount of a table is a whole number of dollars, so the percentiles of a  *)
(* run are whole cents; months of runway are in tenths of a month.          *)

\* n_sims of a run (1000 in the code)
NSims == 2

\* months of a run (12, 24 and 36 in the code)
NMonths == 2

\* np.percentile keys the callers read (the code also returns 25 and 75)
PctKeys == {10, 50, 90}

\* values np.maximum(np.random.normal(mean, std), 0) is drawn from here when
\* std > 0; the distribution's support is every amount >= 0
Draws == {0, 20000}

SimCat(category, mean, std) == [category |-> category, mean |-> mean, std |-> std]

RecurringCharge(merchant, amount, frequency, category) ==
    [merchant |-> merchant, amount |-> amount, frequency |-> frequency,
     category |-> category]

\* a transaction table as the simulator reads it: average monthly income,
\* months of data, per spending category the mean and the standard deviation
\* of its monthly totals, and what detect_recurring_charges finds in it
SimTable(income, n_months, cats, recurring) ==
    [income |-> income, n_months |-> n_months, cats |-> cats, recurring |-> recurring]

SimTables ==
    { SimTable(0, 0, <<>>, <<>>),                                   \* empty
      SimTable(300000, 6, <<>>, <<>>),                              \* income only
      SimTable(0, 2, <<SimCat("Dining", 20000, 0)>>, <<>>),         \* no income
      SimTable(100, 6, <<SimCat("Dining", 20000, 5000)>>, <<>>),    \* income of $1
      SimTable(20000, 6, <<SimCat("Dining", 20000, 5000)>>, <<>>),  \* income = spending
      SimTable(500000, 6,
               <<SimCat("Dining", 20000, 5000), SimCat("Rent & Housing", 100000, 0),
                 SimCat("Entertainment", 1500, 0)>>,
               <<RecurringCharge("netflix", 1500, "monthly", "Entertainment")>>),
      SimTable(400000, 6,                                           \* 8 categories
               <<SimCat("Dining", 30000, 5000), SimCat("Groceries", 40000, 0),
                 SimCat("Health", 25000, 0), SimCat("Shopping", 20000, 0),
                 SimCat("Entertainment", 15000, 0), SimCat("Delivery", 10000, 0),
                 SimCat("Travel", 8000, 0), SimCat("Personal Care", 1500, 0)>>,
               <<RecurringCharge("spotify", 1000, "monthly", "Entertainment"),
                 RecurringCharge("gym", 5000, "monthly", "Health"),
                 RecurringCharge("car wash", 2000, "weekly", "Shopping")>>) }

_get_monthly_income(t) == t.income

\* mean of the monthly spending totals
_get_monthly_spending(t) == SumField(t.cats, "mean")

MonthlyRecurring(t) == SelectSeq(t.recurring, LAMBDA r : r.frequency = "monthly")

\* fixed_monthly: sum of the monthly recurring charges
FixedMonthly(t) == SumField(MonthlyRecurring(t), "amount")

\* recurring_by_cat.get(cat, 0)
RecurringByCat(t, cat) ==
    SumField(SelectSeq(MonthlyRecurring(t), LAMBDA r : r.category = cat), "amount")

\* variable_dists, in table order; std10 is the std in tenths of a cent
_build_category_distributions(t) ==
    [i \in 1..Len(t.cats) |->
        LET c        == t.cats[i]
            adj_mean == Max(0, c.mean - RecurringByCat(t, c.category))
        IN  [ category |-> c.category,
              mean     |-> adj_mean,
              std10    |-> IF t.n_months >= 3 /\ c.std > 0 THEN 10 * c.std ELSE adj_mean ]]

\* PathCode numbers the months' draws of one simulation
RECURSIVE PathCode(_)
PathCode(path) ==
    IF path = <<>> THEN 0
    ELSE (IF Head(path) = 0 THEN 0 ELSE 1) + 2 * PathCode(Tail(path))

\* the samples of one run: per simulation and month the draw of the first
\* category with std > 0.  The simulations are exchangeable (every output is
\* a percentile over the simulation axis), so samples are taken up to the
\* order of the simulations
Samples ==
    { x \in [1..NSims -> [1..NMonths -> Draws]] :
        \A s \in 1..(NSims - 1) : PathCode(x[s]) <= PathCode(x[s + 1]) }

FirstStochastic(dists) ==
    IF \E i \in 1..Len(dists) : dists[i].std10 > 0
    THEN CHOOSE i \in 1..Len(dists) :
            /\ dists[i].std10 > 0
            /\ \A j \in 1..(i - 1) : dists[j].std10 = 0
    ELSE 0

\* samples[s, m, i]: the drawn value for the first category with std > 0, the
\* mean for every other one (normal(loc, 0) is loc; a draw at the mean else)
SampleOf(dists, x, s, m, i) ==
    IF i = FirstStochastic(dists) THEN x[s][m] ELSE dists[i].mean

\* np.percentile(values, p), linear interpolation between the order statistics
Percentile_Reversed(values, p) ==
    LET n      == Len(values)
        sorted == StableSort(values, values)
        pos    == (100 - p) * (n - 1)
        lo     == pos \div 100
        frac   == pos % 100
    IN  IF frac = 0 THEN sorted[lo + 1]
        ELSE sorted[lo + 1] + (frac * (sorted[lo + 2] - sorted[lo + 1])) \div 100

Percentile(values, p) ==
    LET n      == Len(values)
        sorted == StableSort(values, values)
        pos    == p * (n - 1)
        lo     == pos \div 100
        frac   == pos % 100
    IN  IF frac = 0 THEN sorted[lo + 1]
        ELSE sorted[lo + 1] + (frac * (sorted[lo + 2] - sorted[lo + 1])) \div 100

NoScenario == [type |-> "none"]

JobLoss == [type |-> "job_loss"]

ExpenseIncrease == [type |-> "expense_increase", category |-> "Rent & Housing", multiplier |-> 12]

SubscriptionPurge == [type |-> "subscription_purge"]

\* run_projection's essential_cats
PurgeEssentialCats == {"bills & utilities", "insurance", "rent & housing"}

\* run_projection: purged
ProjectionPurged(t) ==
    SumField(SelectSeq(MonthlyRecurring(t),
                       LAMBDA r : Lower(r.category) \notin PurgeEssentialCats), "amount")

RECURSIVE SumSeq(_)
SumSeq(s) == IF s = <<>> THEN 0 ELSE Head(s) + SumSeq(Tail(s))

\* run_projection(df, months, n_sims, scenario) with the samples x
run_projection(t, months, scenario, x) ==
    LET dists  == _build_category_distributions(t)
        fixed  == FixedMonthly(t)
        income == _get_monthly_income(t)
        value(s, m, i) ==
            IF scenario.type = "expense_increase"
               /\ Lower(dists[i].category) = Lower(scenario.category)
            THEN (SampleOf(dists, x, s, m, i) * scenario.multiplier) \div 10
            ELSE SampleOf(dists, x, s, m, i)
        effective_income == IF scenario.type = "job_loss" THEN 0 ELSE income
        effective_fixed  == IF scenario.type = "subscription_purge"
                            THEN fixed - ProjectionPurged(t) ELSE fixed
        monthly_net == [s \in 1..NSims |-> [m \in 1..months |->
                          effective_income
                            - (SumSeq([i \in 1..Len(dists) |-> value(s, m, i)])
                               + effective_fixed)]]
        cumulative  == [s \in 1..NSims |-> [m \in 1..months |->
                          SumSeq(SubSeq(monthly_net[s], 1, m))]]
        column(a, m) == [s \in 1..NSims |-> a[s][m]]
    IN  IF Len(dists) = 0
        THEN [error |-> "Not enough spending data for projection"]
        ELSE [ monthly_net    |-> [p \in PctKeys |-> [m \in 1..months |->
                                     Percentile(column(monthly_net, m), p)]],
               cumulative_net |-> [p \in PctKeys |-> [m \in 1..months |->
                                     Percentile(column(cumulative, m), p)]],
               baseline |-> [ monthly_income    |-> income,
                              monthly_spending  |-> SumField(dists, "mean") + fixed,
                              fixed_costs       |-> fixed,
                              variable_spending |-> SumField(dists, "mean") ],
               scenario_applied |-> scenario.type,
               has_income       |-> income > 0,
               n_sims           |-> NSims,
               months           |-> months ]

\* _find_crossover(cumulative), in tenths of a month: the index of the first
\* negative value plus the interpolated fraction of the month before it
_find_crossover(cumulative) ==
    IF \E k \in 1..Len(cumulative) : cumulative[k] < 0
    THEN LET k == CHOOSE j \in 1..Len(cumulative) :
                     /\ cumulative[j] < 0
                     /\ \A q \in 1..(j - 1) : cumulative[q] >= 0
         IN  IF k = 1 THEN 0
             ELSE LET prev == cumulative[k - 1]
                      val  == cumulative[k]
                  IN  IF prev # val
                      THEN 10 * (k - 1) + RoundDiv(10 * prev, prev - val)
                      ELSE 10 * (k - 1)
    ELSE 10 * Len(cumulative)

\* simulator.ESSENTIAL_CATEGORIES
SIM_ESSENTIAL_CATEGORIES ==
    {"groceries", "grocery", "rent & housing", "rent", "mortgage", "healthcare",
     "medical", "insurance", "utilities", "bills & utilities", "childcare", "education"}

valid_scenarios == {"job_loss", "expense_increase", "subscription_purge"}

\* avg < 20 dollars
MinCutAvg == 2000

\* categories_to_cut[:5]
MaxCuts == 5

\* _stress_job_loss: categories ranked by monthly average, essentials excluded
categories_to_cut(t) ==
    LET ranked == StableSort(t.cats, [i \in 1..Len(t.cats) |-> 0 - t.cats[i].mean])
        kept   == SelectSeq(ranked, LAMBDA c :
                      /\ Lower(c.category) \notin SIM_ESSENTIAL_CATEGORIES
                      /\ ~(c.mean < MinCutAvg))
    IN  Take([i \in 1..Len(kept) |->
                [ category          |-> kept[i].category,
                  monthly_avg       |-> kept[i].mean,
                  potential_savings |-> kept[i].mean \div 2 ]], MaxCuts)

IsProjectionError(p) == "error" \in DOMAIN p

\* _stress_job_loss(df), after its call of run_projection returned projection;
\* the loop of lines 239-249 computes what _find_crossover computes
_stress_job_loss(t, projection) ==
    IF IsProjectionError(projection)
    THEN [scenario |-> "job_loss", error |-> projection.error]
    ELSE [ scenario               |-> "job_loss",
           months_of_runway       |-> _find_crossover(projection.cumulative_net[50]),
           confidence_interval    |-> << _find_crossover(projection.cumulative_net[90]),
                                         _find_crossover(projection.cumulative_net[10]) >>,
           minimum_monthly_budget |-> projection.baseline.monthly_spending,
           categories_to_cut      |-> categories_to_cut(t),
           projection             |-> projection ]

\* _stress_expense_increase(df), after its two calls of run_projection
_stress_expense_increase(baseline, increased) ==
    IF IsProjectionError(baseline) \/ IsProjectionError(increased)
    THEN [scenario |-> "expense_increase", error |-> "Not enough data"]
    ELSE LET months        == baseline.months
             baseline_net  == RoundDiv(baseline.cumulative_net[50][months], months)
             increased_net == RoundDiv(increased.cumulative_net[50][months], months)
         IN  [ scenario              |-> "expense_increase",
               category              |-> ExpenseIncrease.category,
               multiplier            |-> ExpenseIncrease.multiplier,
               baseline_monthly_net  |-> baseline_net,
               increased_monthly_net |-> increased_net,
               monthly_impact        |-> increased_net - baseline_net,
               projection            |-> increased ]

\* _stress_subscription_purge's essential_cats
StressEssentialCats ==
    {"bills & utilities", "insurance", "rent & housing", "education", "health"}

\* _stress_subscription_purge(df), after its call of run_projection; the
\* compounded_savings field (float compounding over 1, 3 and 5 years) is left out
_stress_subscription_purge(t, projection) ==
    LET discretionary_subs ==
            SelectSeq(MonthlyRecurring(t),
                      LAMBDA r : Lower(r.category) \notin StressEssentialCats)
        monthly_savings == SumField(discretionary_subs, "amount")
    IN  [ scenario             |-> "subscription_purge",
          subscriptions_purged |-> [i \in 1..Len(discretionary_subs) |->
                                      [ merchant |-> discretionary_subs[i].merchant,
                                        amount   |-> discretionary_subs[i].amount ]],
          monthly_savings      |-> monthly_savings,
          annual_savings       |-> monthly_savings * 12,
          projection           |-> projection ]

\* calculate_runway: if income == 0 and spending > 0
NoIncome_Ignored(income, spending) == FALSE

NoIncome(income, spending) == income = 0 /\ spending > 0

\* calculate_runway returns before projecting: no income, or no deficit
RunwayWithoutProjection(t) ==
    LET income   == _get_monthly_income(t)
        spending == _get_monthly_spending(t)
    IN  NoIncome(income, spending) \/ income - spending >= 0

\* calculate_runway(df); projection is <<>> when none was run
calculate_runway(t, projection) ==
    LET income   == _get_monthly_income(t)
        spending == _get_monthly_spending(t)
        net      == income - spending
    IN  IF NoIncome(income, spending)
        THEN [ months_of_runway    |-> 0,
               confidence_interval |-> <<0, 0>>,
               monthly_burn_rate   |-> spending,
               monthly_income      |-> 0,
               net_monthly         |-> 0 - spending ]
        ELSE IF net >= 0
        THEN [ months_of_runway    |-> Infinity,
               confidence_interval |-> <<Infinity, Infinity>>,
               monthly_burn_rate   |-> 0,
               monthly_income      |-> income,
               net_monthly         |-> net ]
        ELSE IF IsProjectionError(projection)
        THEN LET runway == IF spending > 0 THEN RoundDiv(300 * income, spending) ELSE 0
             IN  [ months_of_runway    |-> runway,
                   confidence_interval |-> <<RoundDiv(7 * runway, 10), RoundDiv(13 * runway, 10)>>,
                   monthly_burn_rate   |-> 0 - net,
                   monthly_income      |-> income,
                   net_monthly         |-> net ]
        ELSE [ months_of_runway    |-> _find_crossover(projection.cumulative_net[50]),
               confidence_interval |-> << _find_crossover(projection.cumulative_net[90]),
                                         _find_crossover(projection.cumulative_net[10]) >>,
               monthly_burn_rate   |-> 0 - net,
               monthly_income      |-> income,
               net_monthly         |-> net ]

\* the entry points called on a table, and the scenario argument of each
SimCalls ==
    [fn : {"stress_test"}, scenario : valid_scenarios \cup {"baseline", "recession"}]
      \cup [fn : {"run_projection"},
            scenario : {NoScenario, JobLoss, ExpenseIncrease, SubscriptionPurge}]
      \cup { [fn |-> "calculate_runway", scenario |-> NoScenario] }

\* tests/test_simulator.py: a baseline run and a job_loss run on one table
CompareCalls == { [fn |-> "test_job_loss_reduces_net", scenario |-> NoScenario] }

\* stress_test raises ValueError
Raises_Never(call) == FALSE

Raises(call) == call.fn = "stress_test" /\ call.scenario \notin valid_scenarios

\* the scenario arguments of the run_projection calls the entry point makes
ProjectionCalls(call, t) ==
    CASE call.fn = "run_projection" -> <<call.scenario>>
      [] call.fn = "calculate_runway" ->
            IF RunwayWithoutProjection(t) THEN <<>> ELSE <<NoScenario>>
      [] call.fn = "test_job_loss_reduces_net" -> <<NoScenario, JobLoss>>
      [] call.fn = "stress_test" /\ call.scenario = "job_loss" -> <<JobLoss>>
      [] call.fn = "stress_test" /\ call.scenario = "expense_increase" ->
            <<NoScenario, ExpenseIncrease>>
      [] call.fn = "stress_test" /\ call.scenario = "subscription_purge" ->
            <<SubscriptionPurge>>
      [] OTHER -> <<>>

\* a function that falls off its if/elif chain returns None
None == [none |-> TRUE]

\* what the entry point returns once the projections ps were run
SimReturn(call, t, ps) ==
    CASE call.fn = "run_projection" -> ps[1]
      [] call.fn = "calculate_runway" ->
            calculate_runway(t, IF ps = <<>> THEN <<>> ELSE ps[1])
      [] call.fn = "test_job_loss_reduces_net" -> [baseline |-> ps[1], job_loss |-> ps[2]]
      [] call.fn = "stress_test" /\ call.scenario = "job_loss" -> _stress_job_loss(t, ps[1])
      [] call.fn = "stress_test" /\ call.scenario = "expense_increase" ->
            _stress_expense_increase(ps[1], ps[2])
      [] call.fn = "stress_test" /\ call.scenario = "subscription_purge" ->
            _stress_subscription_purge(t, ps[1])
      [] OTHER -> None

SimStart(calls) ==
    /\ sim_df \in SimTables
    /\ sim_call \in calls
    /\ sim_pc = "called"
    /\ projections = <<>>
    /\ sim_result = <<>>
    /\ df = Table(0, 0, 0, 0)
    /\ pc = "simulator"
    /\ profile = ZeroProfile
    /\ plan = <<>>
    /\ futures = [t \in Tools |-> "none"]
    /\ yielded = {}
    /\ queue = <<>>
    /\ results = <<>>
    /\ tools_run = <<>>
    /\ tools_skipped = <<>>
    /\ SynthIdle
    /\ SessIdle
    /\ ExtIdle

\* stress_test: raise ValueError(...)
Raise ==
    /\ sim_pc = "called"
    /\ Raises(sim_call)
    /\ sim_pc' = "raised"
    /\ UNCHANGED <<sim_df, sim_call, projections, sim_result>>
    /\ UNCHANGED <<df, pc, orchVars, synthVars, sessVars, extVars>>

\* one call of run_projection, with the samples np.random.normal returns
RunProjection ==
    /\ sim_pc = "called"
    /\ ~Raises(sim_call)
    /\ Len(projections) < Len(ProjectionCalls(sim_call, sim_df))
    /\ \E x \in Samples :
          projections' = Append(projections,
              run_projection(sim_df, NMonths,
                             ProjectionCalls(sim_call, sim_df)[Len(projections) + 1], x))
    /\ UNCHANGED <<sim_df, sim_call, sim_pc, sim_result>>
    /\ UNCHANGED <<df, pc, orchVars, synthVars, sessVars, extVars>>

\* the entry point returns
SimReturns ==
    /\ sim_pc = "called"
    /\ ~Raises(sim_call)
    /\ Len(projections) = Len(ProjectionCalls(sim_call, sim_df))
    /\ sim_result' = SimReturn(sim_call, sim_df, projections)
    /\ sim_pc' = "returned"
    /\ UNCHANGED <<sim_df, sim_call, projections>>
    /\ UNCHANGED <<df, pc, orchVars, synthVars, sessVars, extVars>>

InitSim == SimStart(SimCalls)

NextSim == Raise \/ RunProjection \/ SimReturns

SpecSim == InitSim /\ [][NextSim]_vars

InitCompare == SimStart(CompareCalls)

NextCompare == RunProjection \/ SimReturns

SpecCompare == InitCompare /\ [][NextCompare]_vars

----------------------------------------------------------------------------
(* SpecNorm: Ingestion/normalizer.py, deduplicate_transactions on a table  *)
(* given row by row; amounts in cents.                                     *)

\* rows of the tables handed to deduplicate_transactions
MaxRows == 4

\* the rows a table is built from: one day, one merchant, two amounts, and a
\* description column that is not part of the duplicate key
RowPool ==
    [ date : {"2025-01-01"}, amount : {550, 600}, merchant : {"STARBUCKS"},
      description : {"POS 0001", "POS 0002"} ]

\* subset=["date", "amount", "merchant"]
DupKey(row) == <<row.date, row.amount, row.merchant>>

\* df.drop_duplicates(subset=..., keep="first"): a row stays when no row
\* before it has its key; seen holds the keys of the rows before
RECURSIVE DropDuplicates(_, _)
DropDuplicates(rows, seen) ==
    IF rows = <<>> THEN <<>>
    ELSE (IF DupKey(Head(rows)) \in seen THEN <<>> ELSE <<Head(rows)>>)
           \o DropDuplicates(Tail(rows), seen \cup {DupKey(Head(rows))})

\* deduplicate_transactions(df)
deduplicate_transactions(rows) == DropDuplicates(rows, {})

InitNorm ==
    /\ norm_in \in SeqsUpTo(RowPool, MaxRows)
    /\ norm_pc = "called"
    /\ norm_out = <<>>
    /\ df = Table(0, 0, 0, 0)
    /\ pc = "normalizer"
    /\ profile = ZeroProfile
    /\ plan = <<>>
    /\ futures = [t \in Tools |-> "none"]
    /\ yielded = {}
    /\ queue = <<>>
    /\ results = <<>>
    /\ tools_run = <<>>
    /\ tools_skipped = <<>>
    /\ SynthIdle
    /\ SessIdle
    /\ SimIdle
    /\ CacheIdle
    /\ StreamIdle

\* return df.reset_index(drop=True)
DeduplicateTransactions ==
    /\ norm_pc = "called"
    /\ norm_out' = deduplicate_transactions(norm_in)
    /\ norm_pc' = "returned"
    /\ UNCHANGED <<norm_in, cacheVars, streamVars>>
    /\ UNCHANGED <<df, pc, orchVars, synthVars, sessVars, simVars>>

NextNorm == DeduplicateTransactions

SpecNorm == InitNorm /\ [][NextNorm]_vars

----------------------------------------------------------------------------
(* SpecCache: the merchant cache (Categorization/merchant_db.py and its     *)
(* in-memory copy in app.py) under concurrent /api/upload and               *)
(* /api/correct-category requests.  Each action is one `with _merchant_lock` *)
(* block or one call that reads or writes the cache file.                   *)

\* number of requests that reach the cache
MaxCacheRequests == 2

CacheRequests == 1..MaxCacheRequests

\* merchant keys (merchant.upper())
Merchants == {"ETSY", "STARBUCKS"}

\* the category the rule engine gives a merchant, at a confidence >= CACHE_THRESHOLD
RuleCategory(m) == IF m = "ETSY" THEN "Shopping" ELSE "Dining"

NoEntry == [category |-> "none", user_verified |-> FALSE]

AutoEntry(category) == [category |-> category, user_verified |-> FALSE]

UserEntry(category) == [category |-> category, user_verified |-> TRUE]

EmptyDb == [m \in Merchants |-> NoEntry]

IdleCacheRequest ==
    [kind |-> "none", merchants |-> {}, category |-> "none", pc |-> "idle",
     db |-> EmptyDb, changed |-> FALSE]

\* _ingest_csv: the loop under _merchant_lock over the rows with
\* confidence >= CACHE_THRESHOLD; keys are the merchants of those rows
IngestUpdate(db, keys) ==
    [m \in Merchants |->
        IF m \in keys /\ ~db[m].user_verified THEN AutoEntry(RuleCategory(m)) ELSE db[m]]

CacheArrives(r) ==
    /\ cache_requests[r].pc = "idle"
    /\ \A q \in 1..(r - 1) : cache_requests[q].pc # "idle"

CacheStep(r, fields) ==
    cache_requests' = [cache_requests EXCEPT ![r] = fields @@ cache_requests[r]]

InitCache ==
    /\ cache_file \in {EmptyDb, [EmptyDb EXCEPT !["STARBUCKS"] = AutoEntry("Dining")]}
    /\ _merchant_db = cache_file
    /\ cache_requests = [r \in CacheRequests |-> IdleCacheRequest]
    /\ df = Table(0, 0, 0, 0)
    /\ pc = "cache"
    /\ profile = ZeroProfile
    /\ plan = <<>>
    /\ futures = [t \in Tools |-> "none"]
    /\ yielded = {}
    /\ queue = <<>>
    /\ results = <<>>
    /\ tools_run = <<>>
    /\ tools_skipped = <<>>
    /\ SynthIdle
    /\ SessIdle
    /\ SimIdle
    /\ NormIdle
    /\ StreamIdle

CacheFrame ==
    /\ UNCHANGED <<normVars, streamVars>>
    /\ UNCHANGED <<df, pc, orchVars, synthVars, sessVars, simVars>>

\* correct_category: a valid merchant and category arrive;
\* update_from_user_correction: db = load_merchant_db(db_path)
CorrectionLoad(r) ==
    /\ CacheArrives(r)
    /\ \E m \in Merchants, c \in {"Entertainment", "Personal Care"} :
          CacheStep(r, [kind |-> "correction", merchants |-> {m}, category |-> c,
                        pc |-> "loaded", db |-> cache_file])
    /\ UNCHANGED <<_merchant_db, cache_file>>
    /\ CacheFrame

\* update_from_user_correction: db[merchant.upper()] = {...}; _save_db(db, db_path)
CorrectionSave(r) ==
    /\ cache_requests[r].kind = "correction"
    /\ cache_requests[r].pc = "loaded"
    /\ cache_file' = [m \in Merchants |->
                        IF m \in cache_requests[r].merchants
                        THEN UserEntry(cache_requests[r].category)
                        ELSE cache_requests[r].db[m]]
    /\ CacheStep(r, [pc |-> "saved"])
    /\ UNCHANGED _merchant_db
    /\ CacheFrame

\* correct_category: with _merchant_lock: _merchant_db[merchant.upper()] = {...};
\* the answer {"status": "learned"} follows
CorrectionMemory(r) ==
    /\ cache_requests[r].kind = "correction"
    /\ cache_requests[r].pc = "saved"
    /\ _merchant_db' = [m \in Merchants |->
                          IF m \in cache_requests[r].merchants
                          THEN UserEntry(cache_requests[r].category)
                          ELSE _merchant_db[m]]
    /\ CacheStep(r, [pc |-> "done"])
    /\ UNCHANGED cache_file
    /\ CacheFrame

\* _ingest_csv: with _merchant_lock: the automatic entries go into the
\* in-memory cache, user-verified entries excepted
IngestMemory(r) ==
    /\ CacheArrives(r)
    /\ \E keys \in SUBSET Merchants :
          /\ _merchant_db' = IngestUpdate(_merchant_db, keys)
          /\ CacheStep(r, [kind |-> "upload", merchants |-> keys, pc |-> "updated",
                            changed |-> \E m \in keys : ~_merchant_db[m].user_verified])
    /\ UNCHANGED cache_file
    /\ CacheFrame

\* _ingest_csv: if changed: _save_db(merchant_db, DB_PATH), outside the lock
IngestSave(r) ==
    /\ cache_requests[r].kind = "upload"
    /\ cache_requests[r].pc = "updated"
    /\ cache_file' = IF cache_requests[r].changed THEN _merchant_db ELSE cache_file
    /\ CacheStep(r, [pc |-> "done"])
    /\ UNCHANGED _merchant_db
    /\ CacheFrame

NextCache ==
    \/ \E r \in CacheRequests : CorrectionLoad(r)
    \/ \E r \in CacheRequests : CorrectionSave(r)
    \/ \E r \in CacheRequests : CorrectionMemory(r)
    \/ \E r \in CacheRequests : IngestMemory(r)
    \/ \E r \in CacheRequests : IngestSave(r)

SpecCache == InitCache /\ [][NextCache]_vars

----------------------------------------------------------------------------
(* SpecStream: the event stream of /api/analyze-stream: the run_analysis    *)
(* thread puts progress events on the queue, the generator takes them off   *)
(* and yields them.  One action per put-and-compute step of the thread and  *)
(* per q.get() of the generator.                                            *)

StepEvent(text) == [step |-> text]

\* orchestrator.TOOL_DISPLAY_NAMES.get(name, name) + "..."
ToolLabel(name) ==
    CASE name = "anomaly_detection"   -> "Detecting unusual spending..."
      [] name = "subscription_hunter" -> "Finding subscriptions..."
      [] OTHER                        -> name

\* what the session's table decides: whether rows are uncategorized, and the
\* tools the plan enables
StreamInputs ==
    [ uncategorized : BOOLEAN,
      enabled : {<<>>, <<"anomaly_detection">>,
                 <<"anomaly_detection", "subscription_hunter">>} ]

\* the steps of run_analysis in program order
WorkerSteps == <<"categorize", "profile", "plan", "execute", "synthesize", "savings", "persist">>

StepIndex(name) == CHOOSE k \in 1..Len(WorkerSteps) : WorkerSteps[k] = name

\* the events a step puts on the queue, in order
StepEvents(name, in) ==
    CASE name = "categorize" ->
            IF in.uncategorized THEN <<StepEvent("Categorizing merchants...")>> ELSE <<>>
      [] name = "profile"    -> <<StepEvent("Profiling your data...")>>
      [] name = "plan"       -> <<StepEvent("Planning analysis...")>>
      [] name = "execute"    ->
            <<StepEvent("Running analysis tools...")>>
              \o [i \in 1..Len(in.enabled) |-> StepEvent(ToolLabel(in.enabled[i]))]
      [] name = "synthesize" -> <<StepEvent("Generating insights...")>>
      [] OTHER               -> <<>>

\* generate() up to thread.start()
InitStream ==
    /\ stream_in \in StreamInputs
    /\ event_q = <<>>
    /\ worker_pc = "categorize"
    /\ result_holder = None
    /\ error_holder = None
    /\ gen_pc = "loop"
    /\ emitted = <<>>
    /\ df = Table(0, 0, 0, 0)
    /\ pc = "stream"
    /\ profile = ZeroProfile
    /\ plan = <<>>
    /\ futures = [t \in Tools |-> "none"]
    /\ yielded = {}
    /\ queue = <<>>
    /\ results = <<>>
    /\ tools_run = <<>>
    /\ tools_skipped = <<>>
    /\ SynthIdle
    /\ SessIdle
    /\ SimIdle
    /\ NormIdle
    /\ CacheIdle

StreamFrame ==
    /\ UNCHANGED <<normVars, cacheVars>>
    /\ UNCHANGED <<df, pc, orchVars, synthVars, sessVars, simVars>>

\* run_analysis: a step puts its events and completes; after the last step
\* result_holder[0] = results
WorkerRuns ==
    /\ worker_pc \in Range(WorkerSteps)
    /\ event_q' = event_q \o StepEvents(worker_pc, stream_in)
    /\ IF StepIndex(worker_pc) < Len(WorkerSteps)
       THEN /\ worker_pc' = WorkerSteps[StepIndex(worker_pc) + 1]
            /\ UNCHANGED result_holder
       ELSE /\ worker_pc' = "finally"
            /\ result_holder' = [tools_run |-> stream_in.enabled]
    /\ UNCHANGED <<stream_in, error_holder, gen_pc, emitted>>
    /\ StreamFrame

\* run_analysis: a step raises, after any number of its puts
WorkerRaises ==
    /\ worker_pc \in Range(WorkerSteps)
    /\ \E n \in 0..Len(StepEvents(worker_pc, stream_in)) :
          event_q' = event_q \o SubSeq(StepEvents(worker_pc, stream_in), 1, n)
    /\ worker_pc' = "except"
    /\ UNCHANGED <<stream_in, result_holder, error_holder, gen_pc, emitted>>
    /\ StreamFrame

\* except Exception as e: error_holder[0] = e
WorkerExcept ==
    /\ worker_pc = "except"
    /\ error_holder' = [exception |-> "e"]
    /\ worker_pc' = "finally"
    /\ UNCHANGED <<stream_in, event_q, result_holder, gen_pc, emitted>>
    /\ StreamFrame

\* finally: q.put(None)
WorkerFinally_NoSentinel ==
    /\ worker_pc = "finally"
    /\ worker_pc' = "exited"
    /\ UNCHANGED <<stream_in, event_q, result_holder, error_holder, gen_pc, emitted>>
    /\ StreamFrame

WorkerFinally ==
    /\ worker_pc = "finally"
    /\ event_q' = Append(event_q, None)
    /\ worker_pc' = "exited"
    /\ UNCHANGED <<stream_in, result_holder, error_holder, gen_pc, emitted>>
    /\ StreamFrame

\* event = q.get(); break on None, else yield the event
GenGet ==
    /\ gen_pc = "loop"
    /\ event_q # <<>>
    /\ event_q' = Tail(event_q)
    /\ IF Head(event_q) = None
       THEN gen_pc' = "after_loop" /\ UNCHANGED emitted
       ELSE emitted' = Append(emitted, Head(event_q)) /\ UNCHANGED gen_pc
    /\ UNCHANGED <<stream_in, worker_pc, result_holder, error_holder>>
    /\ StreamFrame

\* after the loop: yield the error event or the done event
GenTerminal ==
    /\ gen_pc = "after_loop"
    /\ emitted' = Append(emitted,
                         IF error_holder # None
                         THEN [error |-> error_holder.exception]
                         ELSE [done |-> TRUE, data |-> result_holder])
    /\ gen_pc' = "closed"
    /\ UNCHANGED <<stream_in, event_q, worker_pc, result_holder, error_holder>>
    /\ StreamFrame

WorkerThread == WorkerRuns \/ WorkerRaises \/ WorkerExcept \/ WorkerFinally

Generator == GenGet \/ GenTerminal

NextStream == WorkerThread \/ Generator

\* both threads keep running, and every step of the pipeline returns or raises
SpecStream == InitStream /\ [][NextStream]_vars /\ WF_vars(WorkerThread) /\ WF_vars(Generator)

----------------------------------------------------------------------------
(* Claims about the planner and the executor (checked under Spec)          *)

GatesSatisfied(tool_name, prof) ==
    /\ prof.date_range_days   >= Get(TOOL_REQUIREMENTS[tool_name], "min_days", 0)
    /\ prof.category_count    >= Get(TOOL_REQUIREMENTS[tool_name], "min_categories", 0)
    /\ prof.transaction_count >= Get(TOOL_REQUIREMENTS[tool_name], "min_transactions", 0)

Planned == pc \in {"planned", "collecting", "done"}

PlanOf(tool_name) == CHOOSE e \in Range(plan) : e.name = tool_name

\* C1: once the plan exists, it has one entry per tool of TOOL_REQUIREMENTS,
\* the entry is enabled if and only if the profile meets all three of the
\* tool's minimums (a missing minimum counting as 0), and from submission on
\* the tools given to the pool are exactly the tools whose gates are met:
\* nothing later in the run turns a disabled tool back on.
C1_GateIffRequirements ==
    Planned =>
        /\ Len(plan) = Cardinality(Tools)
        /\ \A t \in Tools : \E e \in Range(plan) : e.name = t
        /\ \A i \in 1..Len(plan) :
              plan[i].enabled <=> GatesSatisfied(plan[i].name, profile)
        /\ pc \in {"collecting", "done"} =>
              \A t \in Tools : futures[t] # "none" <=> GatesSatisfied(t, profile)

\* C1 witness: a plan in which subscription_hunter is disabled by the
\* transaction minimum alone while spending_impact is enabled.
C1_Witness ==
    /\ pc = "planned"
    /\ ~PlanOf("subscription_hunter").enabled
    /\ profile.transaction_count > 0
    /\ PlanOf("spending_impact").enabled

\* C2: when execute_analysis_plan has returned, a tool whose task raised has
\* {error: message} as its result, is in tools_run and not in tools_skipped,
\* and every enabled tool, raised or not, is in tools_run with its own result
\* (its own output when it returned); the call reaches its return.
C2_RaisedToolRecorded ==
    pc = "done" =>
        \A t \in Tools :
            /\ futures[t] = "raised" =>
                  /\ t \in DOMAIN results /\ results[t] = ToolError
                  /\ t \in Range(tools_run)
                  /\ \A i \in 1..Len(tools_skipped) : tools_skipped[i].name # t
            /\ futures[t] = "returned" =>
                  /\ t \in DOMAIN results /\ results[t] = ToolOutput(t)
                  /\ t \in Range(tools_run)
            /\ PlanOf(t).enabled => futures[t] \in {"returned", "raised"}

\* C2 witness: a finished run in which one tool raised and another returned.
C2_Witness ==
    /\ pc = "done"
    /\ \E t \in Tools : futures[t] = "raised"
    /\ \E t \in Tools : futures[t] = "returned"

EnabledNames == { plan[i].name : i \in { j \in 1..Len(plan) : plan[j].enabled } }

DisabledNames == { plan[i].name : i \in { j \in 1..Len(plan) : ~plan[j].enabled } }

\* C12: when execute_analysis_plan has returned, no task is queued or running,
\* tools_run holds each enabled tool exactly once, results has exactly the
\* enabled tools as keys, tools_skipped holds each disabled tool exactly once
\* with the plan's reason, and the two lists partition the plan's tools,
\* whatever order the worker threads finished in.
C12_FanInPartition ==
    pc = "done" =>
        /\ \A t \in Tools : futures[t] \in {"none", "returned", "raised"}
        /\ queue = <<>>
        /\ Range(tools_run) = EnabledNames
        /\ Len(tools_run) = Cardinality(EnabledNames)
        /\ DOMAIN results = EnabledNames
        /\ { tools_skipped[i].name : i \in 1..Len(tools_skipped) } = DisabledNames
        /\ Len(tools_skipped) = Cardinality(DisabledNames)
        /\ \A i \in 1..Len(tools_skipped) :
              tools_skipped[i].reason = PlanOf(tools_skipped[i].name).reason
        /\ EnabledNames \cap DisabledNames = {}
        /\ EnabledNames \cup DisabledNames = Tools

\* C12 witness: a returned call with skipped tools whose enabled tools
\* finished in an order other than the plan's.
C12_Witness ==
    /\ pc = "done"
    /\ tools_skipped # <<>>
    /\ Len(tools_run) >= 3
    /\ tools_run # Names(EnabledTools(plan))
    /\ \E t \in Tools : futures[t] = "raised"

\* the message of the first gate, in check order, that the profile fails
FirstFailingReason(tool_name, prof) ==
    LET reqs     == TOOL_REQUIREMENTS[tool_name]
        min_days == Get(reqs, "min_days", 0)
        min_cats == Get(reqs, "min_categories", 0)
        min_txns == Get(reqs, "min_transactions", 0)
    IN  IF prof.date_range_days < min_days
        THEN ReasonNeed("days", min_days, prof.date_range_days)
        ELSE IF prof.category_count < min_cats
        THEN ReasonNeed("categories", min_cats, prof.category_count)
        ELSE ReasonNeed("transactions", min_txns, prof.transaction_count)

\* C13: a disabled tool's reason is that of the first gate it fails, in the
\* order days, categories, transactions; so for a table spanning 30 days
\* temporal_patterns, correlation_engine and spending_impact are disabled
\* with a reason citing the day count.
C13_FirstFailingGateWins ==
    Planned =>
        /\ \A i \in 1..Len(plan) :
              ~plan[i].enabled =>
                  plan[i].reason = FirstFailingReason(plan[i].name, profile)
        /\ profile.date_range_days = 30 =>
              \A t \in {"temporal_patterns", "correlation_engine", "spending_impact"} :
                  ~PlanOf(t).enabled /\ PlanOf(t).reason.gate = "days"

\* C14: for the empty table the profile is the zero-valued one, the plan
\* disables every tool of TOOL_REQUIREMENTS, and execute_analysis_plan returns
\* tools_run = [] with no tool invoked.
C14_EmptyTableRunsNothing ==
    DfLen(df) = 0 =>
        /\ pc # "start" => profile = ZeroProfile
        /\ Planned => \A i \in 1..Len(plan) : ~plan[i].enabled
        /\ pc \in {"collecting", "done"} => \A t \in Tools : futures[t] = "none"
        /\ pc = "done" => tools_run = <<>>

\* df[df["category"].notna() & (df["category"] != "")]: the table the tools
\* receive (the uncategorized rows lie inside the date range of the others)
Filtered(t) == Table(t.n_cat, 0, t.span, t.ncats)

\* C15: every tool the executor invokes receives a filtered table that itself
\* meets the tool's min_transactions, min_days and min_categories:
\* uncategorized rows do not count towards the gates.
C15_GatesOnFilteredTable ==
    pc \in {"collecting", "done"} =>
        \A t \in Tools :
            futures[t] # "none" => GatesSatisfied(t, profile_data(Filtered(df)))

----------------------------------------------------------------------------
(* Claims about the synthesizer and /api/analyze (checked under SpecAnalyze) *)

FailedTools == { t \in DOMAIN results : IsError(results[t]) }

\* synthesize_insights was called and has returned or raised
SynthCalled == pc \in {"synthesized", "saved", "failed", "responded"}

\* synthesize_insights returned to analyze
SynthReturned == pc \in {"synthesized", "saved"} \/ (pc = "responded" /\ response.status = 200)

\* every dollar_impact in the collaborator's reply is a number
LLMFieldsWellFormed ==
    \A i \in 1..Len(llm_response.items) : llm_response.items[i].dollar_impact.kind = "num"

\* C3: when some of the enabled tools failed and the collaborator's reply is
\* harmless, /api/analyze still answers 200 with the results dict and the
\* insights, whichever tools failed.
C3_PartialSuccess ==
    (pc = "responded" /\ FailedTools # {} /\ LLMFieldsWellFormed) =>
        /\ response.status = 200
        /\ response.results = results

\* C4: whatever the collaborator does once it is called, synthesize_insights
\* does not raise, and a reply that is not a list of insights adds nothing to
\* the cross-reference insights.
C4_CollaboratorNeverFatal ==
    (SynthCalled /\ CallsLLM(results)) =>
        /\ pc # "failed"
        /\ (pc = "responded" => response.status = 200)
        /\ (llm_response.kind \notin {"array", "object"} => candidates = cross_refs)

\* the text proposes reducing, cutting, lowering or spending less on an
\* essential category
ProposesReducingEssential(text) ==
    \/ PairsOf(text) \cap ({"reduce", "cut", "lower"} \X ESSENTIAL_CATEGORIES) # {}
    \/ \E i \in 1..(Len(text) - 3) :
          /\ SubSeq(text, i, i + 2) = <<"spending", "less", "on">>
          /\ Lower(text[i + 3]) \in ESSENTIAL_CATEGORIES

\* C6: no returned insight and no savings opportunity proposes reducing,
\* cutting or spending less on an essential category.
C6_EssentialsProtected ==
    /\ \A i \in 1..Len(insights) : ~ProposesReducingEssential(FramingText(insights[i]))
    /\ pc \in {"saved", "responded"} /\ savings_plan # <<>> =>
          \A i \in 1..Len(savings_plan.opportunities) :
              ~ProposesReducingEssential(savings_plan.opportunities[i].title)

\* C7: every insight synthesize_insights returns passes
\* validate_insight_framing, whatever its tool_source.
C7_AllInsightsValidated ==
    \A i \in 1..Len(insights) : validate_insight_framing(insights[i])

\* _fact_check_dollar_impacts returned: checked[i] is candidates[i] afterwards
FactChecked == SynthCalled /\ Len(checked) = Len(candidates)

\* the insight claims more than twice the largest verifiable amount
ClaimsTooMuch(ins) ==
    /\ ins.tool_source # "cross_reference"
    /\ ins.dollar_impact.kind = "num"
    /\ _extract_known_amounts(results) # {}
    /\ ins.dollar_impact.v > 2 * SetMax(_extract_known_amounts(results))

C9_DowngradeOneLevel ==
    FactChecked =>
        \A i \in 1..Len(candidates) :
            ClaimsTooMuch(candidates[i]) =>
                confidence_order[checked[i].confidence]
                    = confidence_order[candidates[i].confidence] + 1

\* a ranks strictly before b: larger dollar_impact, or the same and a
\* better confidence
RanksBefore(a, b) ==
    \/ a.dollar_impact.v > b.dollar_impact.v
    \/ /\ a.dollar_impact.v = b.dollar_impact.v
       /\ confidence_order[a.confidence] < confidence_order[b.confidence]

Count(x, s) == Cardinality({ i \in 1..Len(s) : s[i] = x })

\* C10: synthesize_insights returns at most 5 insights, all of them from the
\* deduplicated list, none ranking strictly before an earlier one, and no
\* insight of the deduplicated list that was left out ranks strictly before a
\* returned one.
C10_TopFiveRanked ==
    SynthReturned =>
        /\ Len(insights) <= 5
        /\ Len(insights) = Min(5, Len(deduped))
        /\ \A x \in Range(insights) : Count(x, insights) <= Count(x, deduped)
        /\ \A i, j \in 1..Len(insights) : i < j => ~RanksBefore(insights[j], insights[i])
        /\ \A x \in Range(deduped) :
              Count(x, insights) < Count(x, deduped) =>
                  \A y \in Range(insights) : ~RanksBefore(x, y)

\* C10 witness: more than 5 insights survive deduplication, 5 are returned,
\* and two returned insights with the same dollar_impact differ in confidence.
C10_Witness ==
    /\ SynthReturned
    /\ Len(deduped) > 5
    /\ Len(insights) = 5
    /\ \E i, j \in 1..Len(insights) :
          /\ i < j
          /\ insights[i].dollar_impact = insights[j].dollar_impact
          /\ insights[i].confidence = "HIGH"
          /\ insights[j].confidence = "MEDIUM"
    /\ insights[1].dollar_impact.v > insights[2].dollar_impact.v

----------------------------------------------------------------------------
(* Claims about the session store (checked under SpecSession)              *)

\* request r is running the analysis pipeline on its session
InFlight(r) == requests[r].kind \in {"analyze", "stream"} /\ requests[r].pc = "running"

\* C5: for every session id, at most one request is running the analysis of
\* that session at a time, whichever of /api/analyze and /api/analyze-stream
\* the requests came through.
C5_OneAnalysisPerSession ==
    \A r1, r2 \in Requests :
        (r1 # r2 /\ InFlight(r1) /\ InFlight(r2)) => requests[r1].sid # requests[r2].sid

----------------------------------------------------------------------------
(* Claims about _deduplicate_insights (checked under SpecDedup)            *)

IsCrossRef(ins) == ins.tool_source = "cross_reference"

IsNotCrossRef(ins) == ins.tool_source # "cross_reference"

\* the order of consideration the claim states: every cross-reference insight
\* of the argument, then every other one, each group in the argument's order
CrossRefsFirst(ins_list) ==
    SelectSeq(ins_list, IsCrossRef) \o SelectSeq(ins_list, IsNotCrossRef)

\* the elements of s at the indices K, in order
Pick(s, K) ==
    [n \in 1..Cardinality(K) |-> s[CHOOSE i \in K : Cardinality({j \in K : j <= i}) = n]]

SharesTopic(a, b) == _extract_insight_keys(a) \cap _extract_insight_keys(b) # {}

\* K is the set of retained positions of s under the claim's rule: a candidate
\* is dropped exactly when at least 3 are retained before it and it shares a
\* topic keyword with one of them
RetainedByRule(s, K) ==
    \A i \in 1..Len(s) :
        i \in K <=>
            ~ /\ Cardinality({j \in K : j < i}) >= 3
              /\ \E j \in K : j < i /\ SharesTopic(s[i], s[j])

\* C11: _deduplicate_insights considers the cross-reference insights before
\* the others and drops a candidate exactly when 3 or more insights are
\* retained and it shares a topic keyword with a retained one; so nothing is
\* dropped while fewer than 3 are retained, and a dropped cross-reference
\* insight shares its topic with a retained cross-reference insight.
C11_DedupRule ==
    pc = "dedup_done" =>
        LET s == CrossRefsFirst(checked)
        IN  \E K \in SUBSET (1..Len(s)) :
                /\ RetainedByRule(s, K)
                /\ deduped = Pick(s, K)
                /\ Len(deduped) >= Min(3, Len(checked))
                /\ \A i \in (1..Len(s)) \ K :
                      IsCrossRef(s[i]) =>
                          \E j \in K : j < i /\ IsCrossRef(s[j]) /\ SharesTopic(s[i], s[j])

\* C11 witness: a list with an LLM-sourced insight ahead of a cross-reference
\* one, from which an LLM-sourced insight and a cross-reference insight were
\* dropped with exactly 3 left.
C11_Witness ==
    /\ pc = "dedup_done"
    /\ Len(checked) = 5
    /\ IsNotCrossRef(checked[1])
    /\ IsCrossRef(checked[5])
    /\ Len(deduped) = 3
    /\ Len(SelectSeq(deduped, IsCrossRef)) < Len(SelectSeq(checked, IsCrossRef))
    /\ Len(SelectSeq(deduped, IsNotCrossRef)) < Len(SelectSeq(checked, IsNotCrossRef))

----------------------------------------------------------------------------
(* Claims about Tools/simulator.py (checked under SpecSim and SpecCompare)  *)

UnknownScenario ==
    /\ sim_call.fn = "stress_test"
    /\ sim_call.scenario \notin {"job_loss", "expense_increase", "subscription_purge"}

\* C16: stress_test called with a scenario name outside {job_loss,
\* expense_increase, subscription_purge} raises: it runs no projection, returns
\* no result, and the only step it can take is the raise.
C16_UnknownScenarioRaises ==
    UnknownScenario =>
        /\ sim_pc \in {"called", "raised"}
        /\ projections = <<>>
        /\ sim_result = <<>>
        /\ sim_pc = "called" => ENABLED Raise

\* C16 witness: stress_test(df, "recession") has raised on a table that the
\* valid scenarios can project.
C16_Witness ==
    /\ UnknownScenario
    /\ sim_call.scenario = "recession"
    /\ sim_df.cats # <<>>
    /\ sim_pc = "raised"

\* C17: calculate_runway never returns a negative months_of_runway; with no
\* income and positive spending it returns exactly 0; with income at least
\* equal to spending it returns the surplus sentinel (float('inf')), and every
\* other value it returns is at most the number of projected months.
C17_RunwayNeverNegative ==
    (sim_call.fn = "calculate_runway" /\ sim_pc = "returned") =>
        LET income   == sim_df.income
            spending == SumField(sim_df.cats, "mean")
            runway   == sim_result.months_of_runway
        IN  /\ runway >= 0
            /\ (income = 0 /\ spending > 0) => runway = 0
            /\ income >= spending => runway = Infinity
            /\ (income > 0 /\ income < spending) => runway <= 10 * NMonths

\* C17 witness: a table spending more than its (positive) income, for which
\* the projection gave a runway strictly between 0 and the projected months;
\* the tables with no income and with a surplus return in the same run.
C17_Witness ==
    /\ sim_call.fn = "calculate_runway"
    /\ sim_pc = "returned"
    /\ sim_df.income > 0
    /\ Len(projections) = 1
    /\ sim_result.months_of_runway > 0
    /\ sim_result.months_of_runway < 10 * NMonths

\* C18: for a table whose income exceeds its positive spending,
\* stress_test(job_loss) returns a months_of_runway that is positive and
\* finite, within a confidence_interval [lo, hi] with lo <= months_of_runway
\* <= hi, whatever was sampled.
C18_JobLossRunwayPositive ==
    ( /\ sim_call.fn = "stress_test"
      /\ sim_call.scenario = "job_loss"
      /\ sim_pc = "returned"
      /\ sim_df.income > SumField(sim_df.cats, "mean")
      /\ SumField(sim_df.cats, "mean") > 0 ) =>
        /\ sim_result.months_of_runway > 0
        /\ sim_result.months_of_runway < Infinity
        /\ sim_result.confidence_interval[1] <= sim_result.months_of_runway
        /\ sim_result.months_of_runway <= sim_result.confidence_interval[2]

Ordered(series, m) == series[10][m] <= series[50][m] /\ series[50][m] <= series[90][m]

\* C19: in every projection run_projection returns, at every month, the 10th
\* percentile is <= the 50th and the 50th <= the 90th, for monthly_net and for
\* cumulative_net, whatever was sampled and whichever scenario was applied.
C19_PercentilesOrdered ==
    \A k \in 1..Len(projections) :
        ~IsProjectionError(projections[k]) =>
            \A m \in 1..projections[k].months :
                /\ Ordered(projections[k].monthly_net, m)
                /\ Ordered(projections[k].cumulative_net, m)

\* C19 witness: run_projection returned an expense_increase projection whose
\* three percentiles differ in the last month, for both series.
C19_Witness ==
    /\ sim_call.fn = "run_projection"
    /\ sim_call.scenario = ExpenseIncrease
    /\ sim_pc = "returned"
    /\ ~IsProjectionError(sim_result)
    /\ sim_result.monthly_net[10][NMonths] < sim_result.monthly_net[50][NMonths]
    /\ sim_result.monthly_net[50][NMonths] < sim_result.monthly_net[90][NMonths]
    /\ sim_result.cumulative_net[10][NMonths] < sim_result.cumulative_net[50][NMonths]
    /\ sim_result.cumulative_net[50][NMonths] < sim_result.cumulative_net[90][NMonths]

\* C20: for a table with positive income, at every month the median
\* cumulative net of a job_loss projection is <= the median cumulative net of
\* a projection without scenario, whatever the two runs sampled.
C20_JobLossBelowBaseline ==
    ( /\ sim_call.fn = "test_job_loss_reduces_net"
      /\ sim_pc = "returned"
      /\ sim_df.income > 0
      /\ ~IsProjectionError(sim_result.baseline)
      /\ ~IsProjectionError(sim_result.job_loss) ) =>
        \A m \in 1..NMonths :
            sim_result.job_loss.cumulative_net[50][m]
                <= sim_result.baseline.cumulative_net[50][m]

\* C21: every category distribution the fitter produces has std > 0, also
\* for a category with constant monthly totals, with fewer than 3 months of
\* data, or whose mean is 0 after its recurring charges are subtracted.
C21_StdPositive ==
    Len(projections) > 0 =>
        \A i \in 1..Len(sim_df.cats) :
            _build_category_distributions(sim_df)[i].std10 > 0

JobLossReturned ==
    /\ sim_call.fn = "stress_test"
    /\ sim_call.scenario = "job_loss"
    /\ sim_pc = "returned"
    /\ "categories_to_cut" \in DOMAIN sim_result

\* C22: no entry of categories_to_cut returned by stress_test(job_loss) names
\* an essential category, for the names of the simulator's
\* ESSENTIAL_CATEGORIES and of Categorization.constants.ESSENTIAL_CATEGORIES,
\* compared in lower case.
C22_CutsExcludeEssentials ==
    JobLossReturned =>
        \A i \in 1..Len(sim_result.categories_to_cut) :
            Lower(sim_result.categories_to_cut[i].category)
                \notin (SIM_ESSENTIAL_CATEGORIES \cup ESSENTIAL_CATEGORIES)

\* C23: stress_test(job_loss) returns at most 3 categories in
\* categories_to_cut; they are the non-essential categories with the highest
\* monthly average, in descending order, each with potential_savings of 50%
\* of its monthly_avg.
C23_AtMostThreeCuts ==
    JobLossReturned =>
        LET cuts  == sim_result.categories_to_cut
            named == {cuts[i].category : i \in 1..Len(cuts)}
        IN  /\ Len(cuts) <= 3
            /\ \A i \in 1..(Len(cuts) - 1) : cuts[i].monthly_avg >= cuts[i + 1].monthly_avg
            /\ \A i \in 1..Len(cuts) :
                  /\ 2 * cuts[i].potential_savings = cuts[i].monthly_avg
                  /\ Lower(cuts[i].category) \notin SIM_ESSENTIAL_CATEGORIES
                  /\ \E j \in 1..Len(sim_df.cats) :
                        /\ sim_df.cats[j].category = cuts[i].category
                        /\ sim_df.cats[j].mean = cuts[i].monthly_avg
                  /\ \A j \in 1..Len(sim_df.cats) :
                        ( /\ sim_df.cats[j].category \notin named
                          /\ Lower(sim_df.cats[j].category) \notin SIM_ESSENTIAL_CATEGORIES )
                            => sim_df.cats[j].mean <= cuts[i].monthly_avg

PurgeReturned ==
    /\ sim_call.fn = "stress_test"
    /\ sim_call.scenario = "subscription_purge"
    /\ sim_pc = "returned"

\* the monthly recurring charges whose cost run_projection removed
PurgedInProjection ==
    SelectSeq(MonthlyRecurring(sim_df),
              LAMBDA r : Lower(r.category) \notin PurgeEssentialCats)

\* C29: in the result of stress_test(subscription_purge), a monthly recurring
\* charge is removed from the projection's fixed costs if and only if it is
\* listed in subscriptions_purged, monthly_savings is the amount removed, and
\* no charge of an essential category is purged in either place.
C29_PurgedSetsAgree ==
    PurgeReturned =>
        LET listed  == {r.merchant : r \in Range(sim_result.subscriptions_purged)}
            removed == {r.merchant : r \in Range(PurgedInProjection)}
        IN  /\ listed = removed
            /\ sim_result.monthly_savings = SumField(PurgedInProjection, "amount")
            /\ \A r \in Range(MonthlyRecurring(sim_df)) :
                  Lower(r.category) \in (PurgeEssentialCats \cup StressEssentialCats)
                      => r.merchant \notin (listed \cup removed)

----------------------------------------------------------------------------
(* Claims about Ingestion/normalizer.py (checked under SpecNorm)           *)

KeyCount(rows, key) == Len(SelectSeq(rows, LAMBDA r : DupKey(r) = key))

\* C24: deduplicate_transactions keeps exactly two of any group of three or
\* more transactions with the same (date, amount, merchant) and keeps every
\* transaction whose (date, amount, merchant) occurs at most twice.
C24_KeepsTwoOfEachGroup ==
    norm_pc = "returned" =>
        \A row \in RowPool :
            KeyCount(norm_out, DupKey(row)) = Min(2, KeyCount(norm_in, DupKey(row)))

----------------------------------------------------------------------------
(* Further claims about the session store (checked under SpecSession)      *)

StoredSids(store) == {store[i].sid : i \in 1..Len(store)}

\* C25: a session whose id is in _analyzing is never removed from the session
\* store: no step of any upload, lookup or analysis takes a stored session
\* out of _sessions while its id is in _analyzing.
C25_AnalyzingSessionKept ==
    [][\A sid \in _analyzing :
          sid \in StoredSids(_sessions) => sid \in StoredSids(_sessions')]_vars

\* C30: the session store never holds more than MAX_SESSIONS sessions:
\* _store_session evicts the expired sessions and, if the store is still
\* full, the oldest one, before it inserts.
C30_StoreBounded == Len(_sessions) <= MAX_SESSIONS

\* C30 witness: an upload into a full store of unexpired sessions: the oldest
\* session is gone, the new one is stored, and the store is full again.
C30_Witness ==
    /\ Len(_sessions) = MAX_SESSIONS
    /\ now = 0
    /\ next_sid = MAX_SESSIONS + 2
    /\ 1 \notin StoredSids(_sessions)
    /\ (MAX_SESSIONS + 1) \in StoredSids(_sessions)

\* the analyze requests that added their session id to _analyzing and have
\* not removed it yet
Holding(sid) ==
    {r \in Requests : /\ requests[r].kind = "analyze"
                      /\ requests[r].sid = sid
                      /\ requests[r].pc \in {"lookup", "expired", "running", "finally"}}

\* C27: every /api/analyze request that adds its session id to _analyzing
\* eventually removes it, on every exit path (200, 500, 400 for an expired or
\* missing session); a session id is in _analyzing only while a request for
\* it is in flight, so no id stays in _analyzing forever.
C27_AnalyzingReleased ==
    /\ [](\A sid \in _analyzing : Holding(sid) # {})
    /\ \A r \in Requests :
          (requests[r].kind = "analyze" /\ requests[r].pc = "lookup")
              ~> (requests[r].pc = "done" /\ requests[r].sid \notin _analyzing)

\* C27 witness: an analysis raised, the request answered 500, and its session
\* id is out of _analyzing again.
C27_Witness ==
    \E r \in Requests :
        /\ requests[r].kind = "analyze"
        /\ requests[r].pc = "done"
        /\ requests[r].status = 500
        /\ requests[r].sid \notin _analyzing

----------------------------------------------------------------------------
(* Claims about the merchant cache (checked under SpecCache)               *)

\* the merchants whose correction was accepted: /api/correct-category wrote
\* the file and the in-memory cache and answered
Accepted ==
    UNION { cache_requests[r].merchants :
              r \in {q \in CacheRequests : /\ cache_requests[q].kind = "correction"
                                           /\ cache_requests[q].pc = "done"} }

\* C26: once a correction for a merchant is accepted, the merchant's entry
\* stays user-verified in the in-memory cache and in the cache file, under
\* every interleaving with uploads and with other corrections.
C26_CorrectionsKept ==
    \A m \in Accepted :
        /\ _merchant_db[m].user_verified
        /\ cache_file[m].user_verified

----------------------------------------------------------------------------
(* Claims about /api/analyze-stream (checked under SpecStream)             *)

RECURSIVE EventsFrom(_)
EventsFrom(k) ==
    IF k > Len(WorkerSteps) THEN <<>>
    ELSE StepEvents(WorkerSteps[k], stream_in) \o EventsFrom(k + 1)

\* every progress event of a run that raises nowhere
AllEvents == EventsFrom(1)

IsPrefix(s, t) == Len(s) <= Len(t) /\ s = SubSeq(t, 1, Len(s))

SentinelQueued == \E i \in 1..Len(event_q) : event_q[i] = None

StreamSafe ==
    /\ \A i \in 1..Len(event_q) : event_q[i] = None => i = Len(event_q)
    /\ SentinelQueued => worker_pc = "exited"
    /\ worker_pc = "exited" => (SentinelQueued \/ gen_pc \in {"after_loop", "closed"})
    /\ gen_pc \in {"after_loop", "closed"} =>
          /\ worker_pc = "exited"
          /\ event_q = <<>>
    /\ gen_pc # "closed" => IsPrefix(emitted, AllEvents)
    /\ gen_pc = "closed" =>
          LET progress == SubSeq(emitted, 1, Len(emitted) - 1)
              terminal == emitted[Len(emitted)]
          IN  /\ IsPrefix(progress, AllEvents)
              /\ IF error_holder # None
                 THEN terminal = [error |-> error_holder.exception]
                 ELSE /\ progress = AllEvents
                      /\ result_holder # None
                      /\ terminal = [done |-> TRUE, data |-> result_holder]

\* C28: the event stream always terminates: whether run_analysis succeeds or
\* raises at any step, it enqueues the end sentinel once and last, every
\* progress event is yielded before the terminal event, and the stream ends
\* with one terminal event, the error event or the done event with the results.
C28_StreamTerminates == []StreamSafe /\ <>(gen_pc = "closed")

\* C28 witness: the run raised while executing the plan, after three of its
\* progress events; the stream yielded them and closed with the error event.
C28_Witness ==
    /\ gen_pc = "closed"
    /\ error_holder # None
    /\ Len(emitted) = 4
    /\ emitted[3] = StepEvent("Running analysis tools...")
    /\ emitted[4] = [error |-> "e"]

====
